---- MODULE Spec2Model ----
(***************************************************************************)
(* ChalkOps backend: the tenant-scoped secrets and encryption-key engine   *)
(* (SecurityService) on top of VaultSecretsProvider.                       *)
(*                                                                         *)
(* The provider of this repository talks to a placeholder Vault client:    *)
(* write and delete return without keeping anything, read answers          *)
(* {data: {}} and list answers {data: {keys: []}}.  createKey and          *)
(* deleteKey keep no key table and listKeys answers an empty list.  The    *)
(* model keeps these answers as the code gives them, and records the calls *)
(* that reach the backend (writes, deletes, created and deleted keys) so   *)
(* that properties of the keys and records handed out can be stated.       *)
(***************************************************************************)
EXTENDS Integers, Sequences, FiniteSets, TLC

VARIABLES
    configToken,     \* config.vault.token is a non-empty string
    isInitialized,   \* VaultSecretsProvider.isInitialized
    status,          \* VaultSecretsProvider.status
    ini,             \* the initialize() call in flight: the await it stands at
    uuidCount,       \* number of ids UuidService.generateV7 has handed out
    vaultWritten,    \* the (path, data) pairs handed to vaultClient.write, each with its caller's tenant id and value
    vaultDeleted,    \* the paths handed to vaultClient.delete
    createdKeys,     \* the keys created through provider.createKey, with the tenant they were created for
    deletedKeyIds,   \* the key ids handed to provider.deleteKey
    result,          \* what the last step returned or threw to a caller; none when it returned nothing
    rot,             \* rotateKeys calls: call id -> the await the call stands at and its locals
    enc,             \* encryptAndStoreSecret / encryptFile calls: call id -> the await the call stands at and its locals
    rt,              \* an encrypt followed by decrypt: the await it stands at and what encrypt gave
    cacheType,       \* config.cache.type
    keyPrefix,       \* config.cache.keyPrefix is a non-empty string
    cache,           \* MemoryCacheService.cache: full key -> {value, expiry}
    db,              \* the rows of the ipBlacklist table, in the order created
    clock,           \* position of Date.now() in ClockTimes
    rateLog,         \* what the checkRateLimit calls returned so far, in order
    rl,              \* checkRateLimit calls: call id -> the await the call stands at and its locals
    chk,             \* the isIpBlacklisted call in flight: the await it stands at and its locals
    bl,              \* the blacklistIp call in flight
    un,              \* the unblacklistIp call in flight
    hc               \* the cache healthCheck call in flight: the await it stands at and its locals

\* The provider's fields and its initialize() in flight.
providerVars == <<configToken, isInitialized, status, ini>>

\* The calls that reached the backend, and the ids drawn.
backendVars == <<uuidCount, vaultWritten, vaultDeleted, createdKeys, deletedKeyIds>>

\* The engine calls in flight.
callVars == <<rot, enc, rt>>

\* The state of the secrets engine and its provider.
engineVars == <<providerVars, backendVars, callVars>>

\* The state of the abuse guard: its cache, its table and the clock.
guardVars == <<cacheType, keyPrefix, cache, db, clock, rateLog, rl, chk, bl, un, hc>>

vars == <<configToken, isInitialized, status, ini, uuidCount, vaultWritten, vaultDeleted,
          createdKeys, deletedKeyIds, result, rot, enc, rt,
          cacheType, keyPrefix, cache, db, clock, rateLog, rl, chk, bl, un, hc>>

(***************************************************************************)
(* Bounds                                                                  *)
(***************************************************************************)
MaxUuids == 4
MaxSecrets == 1
MaxDeletes == 1
MaxStoredSecrets == 3
MaxRotationUuids == 6

(***************************************************************************)
(* Program constants                                                       *)
(***************************************************************************)
MAX_ARCHIVED_KEYS == 3
DEFAULT_KEY_SIZE == 256
DEFAULT_ALGORITHM == "aes256-gcm96"

KeyStatusACTIVE == "active"
KeyStatusROTATING == "rotating"
KeyStatusARCHIVED == "archived"
KeyStatusEXPIRED == "expired"
KeyStatus == {KeyStatusACTIVE, KeyStatusROTATING, KeyStatusARCHIVED, KeyStatusEXPIRED}

ProviderStatus == {"healthy", "unhealthy", "connecting", "disconnected"}

(***************************************************************************)
(* Strings.  A secret value is a sequence of tokens: "E" stands for the    *)
(* ten characters encrypted_ and "x" for one character that is no part of  *)
(* them, so the places where encrypted_ occurs in a value are exactly its  *)
(* "E" tokens.                                                             *)
(***************************************************************************)
EmptyString == << >>
Marker == "E"
Values == { <<"x">>, <<"E", "x">> }

RECURSIVE StrLength(_)
StrLength(s) ==
    IF s = << >> THEN 0
    ELSE (IF Head(s) = Marker THEN 10 ELSE 1) + StrLength(Tail(s))

(***************************************************************************)
(* Tenant ids.  The callers' tenant ids are three fixed strings, written   *)
(* as character sequences; the state names them tA, tB and tX.             *)
(***************************************************************************)
TenantInputs == {"tA", "tB", "tX"}

TenantIdString(t) ==
    CASE t = "tA" ->   \* 01890a5d-ac96-774b-bcce-b302099a8057
           <<"0","1","8","9","0","a","5","d","-","a","c","9","6","-","7","7","4","b","-",
             "b","c","c","e","-","b","3","0","2","0","9","9","a","8","0","5","7">>
      [] t = "tB" ->   \* 0190FFFF-0000-7ABC-8DEF-0123456789AB
           <<"0","1","9","0","F","F","F","F","-","0","0","0","0","-","7","A","B","C","-",
             "8","D","E","F","-","0","1","2","3","4","5","6","7","8","9","A","B">>
      [] OTHER ->      \* f47ac10b-58cc-4372-a567-0e02b2c3d479 (a version 4 id)
           <<"f","4","7","a","c","1","0","b","-","5","8","c","c","-","4","3","7","2","-",
             "a","5","6","7","-","0","e","0","2","b","2","c","3","d","4","7","9">>

HexChars == {"0","1","2","3","4","5","6","7","8","9",
             "a","b","c","d","e","f","A","B","C","D","E","F"}

\* /^[0-9a-f]{8}-[0-9a-f]{4}-7[0-9a-f]{3}-[89ab][0-9a-f]{3}-[0-9a-f]{12}$/i
UUID7IsValid(s) ==
    /\ Len(s) = 36
    /\ \A i \in 1..36 :
         CASE i \in {9, 14, 19, 24} -> s[i] = "-"
           [] i = 15 -> s[i] = "7"
           [] i = 20 -> s[i] \in {"8", "9", "a", "b", "A", "B"}
           [] OTHER -> s[i] \in HexChars

ValidTenant(t) == UUID7IsValid(TenantIdString(t))

(***************************************************************************)
(* Ids from UuidService.generateV7: the n-th id handed out.                *)
(***************************************************************************)
GenerateV7(n) == "u" \o ToString(n)

NoId == ""

(***************************************************************************)
(* Outcomes of a call: a value or a thrown Error, whose message is kept as *)
(* the sequence of its colon-separated parts, outermost first.             *)
(***************************************************************************)
Ok(v) == [ok |-> TRUE, val |-> v, err |-> << >>]
Err(parts) == [ok |-> FALSE, val |-> << >>, err |-> parts]
Wrap(prefix, r) == IF r.ok THEN r ELSE Err(<<prefix>> \o r.err)

NotReady == <<"Vault provider not ready">>

(***************************************************************************)
(* VaultSecretsProvider                                                    *)
(***************************************************************************)
IsReady == isInitialized /\ status = "healthy"

\* The placeholder client of initialize().  A secret's data is "plain" (value
\* and metadata), "enc" (encryptedData and metadata), "empty" (the object {})
\* or "none" (no data at all).
EmptyData == [kind |-> "empty"]
\* A client whose read gives back what was written at the path, deleted or not.
VaultClientReadsWritten(path) ==
    LET written == {w \in vaultWritten : w.path = path}
    IN  IF written = {} THEN [data |-> EmptyData]
        ELSE [data |-> (CHOOSE w \in written : TRUE).data]

VaultClientRead(path) == [data |-> EmptyData]
VaultClientList(path) == [data |-> [keys |-> << >>]]
\* health: async () => ({ data: {} }) has neither initialized nor sealed.
VaultClientHealth == [initialized |-> FALSE, sealed |-> FALSE]

GetTenantPathsShared(tenantId) ==
    [secrets        |-> <<"secret", "data", "tenants", "secrets">>,
     encryptionKeys |-> <<"transit", "keys", "tenants">>,
     keyRotation    |-> <<"transit", "keys", "tenants", "rotation">>]

GetTenantPaths(tenantId) ==
    [secrets        |-> <<"secret", "data", "tenants", tenantId, "secrets">>,
     encryptionKeys |-> <<"transit", "keys", "tenants", tenantId>>,
     keyRotation    |-> <<"transit", "keys", "tenants", tenantId, "rotation">>]

SecretPath(tenantId, secretId) == Append(GetTenantPaths(tenantId).secrets, secretId)

ProviderGetSecret(path) ==
    IF ~IsReady THEN Err(<<"Vault get secret failed">> \o NotReady)
    ELSE LET response == VaultClientRead(path)
         IN  IF response.data = [kind |-> "none"]
             THEN Err(<<"Vault get secret failed", "Secret not found">> \o path)
             ELSE Ok(response.data)

\* A setSecret whose error message quotes the data it was given.
ProviderSetSecretQuotesData(path, data) ==
    IF ~IsReady
    THEN Err(<<"Vault set secret failed">> \o NotReady
             \o (IF data.kind = "plain" THEN data.value ELSE data.encryptedData.ciphertext))
    ELSE Ok(<< >>)

ProviderSetSecret(path, data) ==
    IF ~IsReady THEN Err(<<"Vault set secret failed">> \o NotReady) ELSE Ok(<< >>)

ProviderDeleteSecret(path) ==
    IF ~IsReady THEN Err(<<"Vault delete secret failed">> \o NotReady) ELSE Ok(<< >>)

RECURSIVE ReadMetadata(_, _)
ReadMetadata(path, names) ==
    IF names = << >> THEN << >>
    ELSE LET secret == ProviderGetSecret(Append(path, Head(names)))
             rest == ReadMetadata(path, Tail(names))
         IN  IF secret.ok /\ secret.val.kind \in {"plain", "enc"}
             THEN <<secret.val.metadata>> \o rest
             ELSE rest

ProviderListSecrets(path) ==
    IF ~IsReady THEN Err(<<"Vault list secrets failed">> \o NotReady)
    ELSE LET keys == VaultClientList(path).data.keys
             secrets == ReadMetadata(path, keys)
         IN  Ok([secrets |-> secrets, totalCount |-> Len(secrets)])

ProviderEncrypt(data, keyId) ==
    IF ~IsReady THEN Err(<<"Vault encryption failed">> \o NotReady)
    ELSE Ok([ciphertext |-> <<Marker>> \o data,
             iv |-> "placeholder_iv",
             algorithm |-> DEFAULT_ALGORITHM,
             keyId |-> keyId])

\* replace with a global pattern: every occurrence.
RECURSIVE ReplaceEveryMarker(_)
ReplaceEveryMarker(s) ==
    IF s = << >> THEN << >>
    ELSE IF Head(s) = Marker THEN ReplaceEveryMarker(Tail(s))
    ELSE <<Head(s)>> \o ReplaceEveryMarker(Tail(s))

\* String.prototype.replace with a string pattern: the first occurrence only.
RECURSIVE ReplaceFirstMarker(_)
ReplaceFirstMarker(s) ==
    IF s = << >> THEN << >>
    ELSE IF Head(s) = Marker THEN Tail(s)
    ELSE <<Head(s)>> \o ReplaceFirstMarker(Tail(s))

ProviderDecrypt(encryptedData) ==
    IF ~IsReady THEN Err(<<"Vault decryption failed">> \o NotReady)
    ELSE Ok(ReplaceFirstMarker(encryptedData.ciphertext))

NoDate == -1

\* The KeyInfo that createKey builds and returns.
NewKeyInfo(keyId) ==
    [id |-> keyId, algorithm |-> DEFAULT_ALGORITHM, keySize |-> DEFAULT_KEY_SIZE,
     status |-> KeyStatusACTIVE, archivedAt |-> NoDate]

ProviderCreateKey(keyId) ==
    IF ~IsReady THEN Err(<<"Vault key creation failed">> \o NotReady)
    ELSE Ok(NewKeyInfo(keyId))

ListKeysOfAllTenants ==
    IF ~IsReady THEN Err(<<"Vault list keys failed">> \o NotReady)
    ELSE LET live == {c \in createdKeys : c.key.id \notin deletedKeyIds}
             n == Cardinality(live)
             order == CHOOSE f \in [1..n -> live] :
                          /\ \A i, j \in 1..n : i # j => f[i] # f[j]
                          /\ \A i, j \in 1..n : i < j => f[i].seq < f[j].seq
         IN  Ok([keys |-> [i \in 1..n |-> order[i].key], totalCount |-> n])

\* listKeys answers with no key, whatever keys were created.
ProviderListKeys ==
    IF ~IsReady THEN Err(<<"Vault list keys failed">> \o NotReady)
    ELSE Ok([keys |-> << >>, totalCount |-> 0])

\* rotateKey: the new id is the old one with "_rotated_" and the time.
ProviderRotateKey(keyId) ==
    IF ~IsReady THEN Err(<<"Vault key rotation failed">> \o NotReady)
    ELSE Ok([oldKeyId |-> keyId, newKeyId |-> <<keyId, "_rotated_">>, archivedKeys |-> << >>])

ProviderDeleteKey(keyId) ==
    IF ~IsReady THEN Err(<<"Vault key deletion failed">> \o NotReady) ELSE Ok(<< >>)

(***************************************************************************)
(* SecurityService: private helpers                                        *)
(***************************************************************************)
NoKey == [id |-> NoId, tenantId |-> "", keyId |-> NoId, status |-> "none",
          algorithm |-> "", keySize |-> 0, archivedAt |-> NoDate]

ConvertToEncryptionKey(keyInfo) ==
    [id |-> keyInfo.id, tenantId |-> "", keyId |-> keyInfo.id, status |-> keyInfo.status,
     algorithm |-> keyInfo.algorithm, keySize |-> keyInfo.keySize,
     archivedAt |-> keyInfo.archivedAt]

\* A failing listKeys is swallowed: "No keys found".
GetAllKeys(tenantId) ==
    LET keyData == ProviderListKeys
    IN  IF keyData.ok
        THEN [i \in 1..Len(keyData.val.keys) |-> ConvertToEncryptionKey(keyData.val.keys[i])]
        ELSE << >>

\* Array.prototype.find: the first element that matches, or null.
FindActive(keys) ==
    LET hits == {i \in 1..Len(keys) : keys[i].status = KeyStatusACTIVE}
    IN  IF hits = {} THEN NoKey
        ELSE keys[CHOOSE i \in hits : \A j \in hits : i <= j]

GetActiveKey(tenantId) == FindActive(GetAllKeys(tenantId))

IsArchived(key) == key.status = KeyStatusARCHIVED

GetArchivedKeys(tenantId) == SelectSeq(GetAllKeys(tenantId), IsArchived)

\* Array.prototype.sort with the comparator (a, b) =>
\* new Date(a.archivedAt!).getTime() - new Date(b.archivedAt!).getTime().
\* The time of a key without archivedAt is NaN, a difference with NaN is
\* NaN, and sort reads a NaN from its comparator as 0: such a key compares
\* equal to every key.
CompareArchivedAt(a, b) ==
    IF a.archivedAt = NoDate \/ b.archivedAt = NoDate THEN 0
    ELSE a.archivedAt - b.archivedAt

\* The sort of an array of fewer than 64 elements, as Node's engine runs it:
\* the run the array starts with is taken as it is when it does not descend
\* and reversed when it strictly descends, and each element after the run
\* is put into it by binary insertion.  With a comparator that orders the
\* keys this is a stable ascending sort; with keys that lack archivedAt the
\* order is the one these steps give.
RECURSIVE RunEnd(_, _, _)
RunEnd(keys, descending, last) ==
    IF last = Len(keys) THEN last
    ELSE LET order == CompareArchivedAt(keys[last + 1], keys[last])
         IN  IF (descending /\ order >= 0) \/ (~descending /\ order < 0) THEN last
             ELSE RunEnd(keys, descending, last + 1)

ReverseRange(keys) == [i \in 1..Len(keys) |-> keys[Len(keys) + 1 - i]]

\* The place of pivot among keys[left .. right - 1]: after the keys it does
\* not compare below.
RECURSIVE InsertionPoint(_, _, _, _)
InsertionPoint(keys, pivot, left, right) ==
    IF left >= right THEN left
    ELSE LET mid == left + (right - left) \div 2
         IN  IF CompareArchivedAt(pivot, keys[mid]) < 0
             THEN InsertionPoint(keys, pivot, left, mid)
             ELSE InsertionPoint(keys, pivot, mid + 1, right)

\* keys[1 .. start - 1] is the run; keys[start], keys[start + 1], ... are
\* inserted in turn.
RECURSIVE BinaryInsertionSort(_, _)
BinaryInsertionSort(keys, start) ==
    IF start > Len(keys) THEN keys
    ELSE LET pivot == keys[start]
             at == InsertionPoint(keys, pivot, 1, start)
         IN  BinaryInsertionSort(SubSeq(keys, 1, at - 1) \o <<pivot>>
                                     \o SubSeq(keys, at, start - 1)
                                     \o SubSeq(keys, start + 1, Len(keys)),
                                 start + 1)

SortByArchivedAt(keys) ==
    IF Len(keys) < 2 THEN keys
    ELSE LET descending == CompareArchivedAt(keys[2], keys[1]) < 0
             runLength == RunEnd(keys, descending, 2)
             run == SubSeq(keys, 1, runLength)
         IN  BinaryInsertionSort((IF descending THEN ReverseRange(run) ELSE run)
                                     \o SubSeq(keys, runLength + 1, Len(keys)),
                                 runLength + 1)

\* The keys cleanupArchivedKeys hands to deleteKey, in that order.
KeysToRemove(archivedKeys) ==
    IF Len(archivedKeys) > MAX_ARCHIVED_KEYS
    THEN SubSeq(SortByArchivedAt(archivedKeys), 1, Len(archivedKeys) - MAX_ARCHIVED_KEYS)
    ELSE << >>

ValidateUUID7(tenantId) ==
    IF ValidTenant(tenantId) THEN Ok(<< >>)
    ELSE Err(<<"Invalid UUID v7 format", tenantId>>)

\* metadata.id stands in for the tenant id.
ConvertToVaultMetadata(metadata) ==
    [id |-> metadata.id, tenantId |-> metadata.id, name |-> metadata.name,
     size |-> metadata.size]

Range(seq) == {seq[i] : i \in 1..Len(seq)}

(***************************************************************************)
(* What a call does: the ids it draws, the backend calls it gets through,  *)
(* and what it returns or throws.                                          *)
(***************************************************************************)
Effect(uuids, written, deleted, keys, delKeys, res) ==
    [uuids |-> uuids, written |-> written, deleted |-> deleted, keys |-> keys,
     delKeys |-> delKeys, res |-> res]

Result(op, tenantId, arg, r) ==
    [op |-> op, tenantId |-> tenantId, arg |-> arg, ok |-> r.ok, err |-> r.err, ret |-> r.val]

NoResult == Result("none", "", NoId, Ok(<< >>))

\* A call of vaultClient.write, with the tenant and value of the caller.
Written(tenantId, value, path, data) ==
    [tenantId |-> tenantId, value |-> value, path |-> path, data |-> data]

KeyEntry(n, tenantId, keyInfo) == [seq |-> n, tenantId |-> tenantId, key |-> keyInfo]

\* createEncryptionKey: the next id, then provider.createKey; the key object
\* returned is ACTIVE and carries the tenant id.
CreateEncryptionKey(tenantId, n) ==
    LET keyId == GenerateV7(n + 1)
        made == ProviderCreateKey(keyId)
    IN  IF made.ok
        THEN [ok |-> TRUE, err |-> << >>, uuids |-> n + 1,
              keys |-> {KeyEntry(Cardinality(createdKeys) + 1, tenantId, made.val)},
              key |-> [id |-> keyId, tenantId |-> tenantId, keyId |-> keyId,
                       status |-> KeyStatusACTIVE, algorithm |-> DEFAULT_ALGORITHM,
                       keySize |-> DEFAULT_KEY_SIZE, archivedAt |-> NoDate]]
        ELSE [ok |-> FALSE, err |-> made.err, uuids |-> n + 1, keys |-> {}, key |-> NoKey]

Metadata(secretId, name, path, value) ==
    [id |-> secretId, name |-> name, path |-> path, size |-> StrLength(value)]

(***************************************************************************)
(* SecurityService: public operations                                      *)
(***************************************************************************)
StoreSecretEffect(tenantId, name, value) ==
    LET valid == ValidateUUID7(tenantId)
        secretId == GenerateV7(uuidCount + 1)
        path == SecretPath(tenantId, secretId)
        metadata == Metadata(secretId, name, path, value)
        secretData == [kind |-> "plain", value |-> value, metadata |-> metadata]
        set == ProviderSetSecret(path, secretData)
    IN  IF ~valid.ok
        THEN Effect(uuidCount, {}, {}, {}, {}, Result("storeSecret", tenantId, NoId, valid))
        ELSE IF ~set.ok
        THEN Effect(uuidCount + 1, {}, {}, {}, {}, Result("storeSecret", tenantId, NoId, set))
        ELSE Effect(uuidCount + 1, {Written(tenantId, value, path, secretData)}, {}, {}, {},
                    Result("storeSecret", tenantId, NoId,
                           Ok([id |-> secretId, tenantId |-> tenantId, name |-> name,
                               kind |-> "plain", value |-> value,
                               metadata |-> ConvertToVaultMetadata(metadata)])))

\* getSecret: the SecretResponse, or the error thrown.
GetSecretOutcome(tenantId, secretId) ==
    LET valid == ValidateUUID7(tenantId)
        secretPath == SecretPath(tenantId, secretId)
        secret == ProviderGetSecret(secretPath)
        failed == "Secret retrieval failed"
    IN  IF ~valid.ok THEN Wrap(failed, valid)
        ELSE IF ~secret.ok THEN Wrap(failed, secret)
        ELSE IF secret.val.kind = "plain" /\ secret.val.value # EmptyString
        THEN Ok([id |-> secretId, tenantId |-> tenantId, name |-> secret.val.metadata.name,
                 kind |-> "plain", value |-> secret.val.value,
                 metadata |-> ConvertToVaultMetadata(secret.val.metadata)])
        ELSE IF secret.val.kind = "enc"
        THEN Ok([id |-> secretId, tenantId |-> tenantId, name |-> secret.val.metadata.name,
                 kind |-> "enc",
                 encryptedData |-> secret.val.encryptedData.ciphertext,
                 keyId |-> secret.val.encryptedData.keyId,
                 algorithm |-> secret.val.encryptedData.algorithm,
                 iv |-> secret.val.encryptedData.iv,
                 metadata |-> ConvertToVaultMetadata(secret.val.metadata)])
        ELSE Err(<<failed, "Secret not found", secretId>>)

DecryptSecretOutcome(tenantId, secretId) ==
    LET valid == ValidateUUID7(tenantId)
        secret == GetSecretOutcome(tenantId, secretId)
        failed == "Secret decryption failed"
    IN  IF ~valid.ok THEN Wrap(failed, valid)
        ELSE IF ~secret.ok THEN Wrap(failed, secret)
        ELSE IF secret.val.kind = "plain" THEN Ok(secret.val.value)
        ELSE IF secret.val.encryptedData = EmptyString \/ secret.val.keyId = NoId
        THEN Err(<<failed, "Invalid encrypted secret data">>)
        ELSE Wrap(failed, ProviderDecrypt([ciphertext |-> secret.val.encryptedData,
                                           keyId |-> secret.val.keyId,
                                           algorithm |-> secret.val.algorithm,
                                           iv |-> secret.val.iv]))

\* A deletion that clears every record written under the tenant's secrets path.
DeleteSecretClearsTenant(tenantId, secretId) ==
    LET valid == ValidateUUID7(tenantId)
        path == SecretPath(tenantId, secretId)
        deleted == ProviderDeleteSecret(path)
        op == "deleteSecret"
        failed == "Secret deletion failed"
    IN  IF ~valid.ok
        THEN Effect(uuidCount, {}, {}, {}, {}, Result(op, tenantId, secretId, Wrap(failed, valid)))
        ELSE IF ~deleted.ok
        THEN Effect(uuidCount, {}, {}, {}, {}, Result(op, tenantId, secretId, Wrap(failed, deleted)))
        ELSE Effect(uuidCount, {}, {path} \cup {w.path : w \in {x \in vaultWritten : x.tenantId = tenantId}},
                    {}, {}, Result(op, tenantId, secretId, Ok(<< >>)))

DeleteSecretEffect(tenantId, secretId) ==
    LET valid == ValidateUUID7(tenantId)
        path == SecretPath(tenantId, secretId)
        deleted == ProviderDeleteSecret(path)
        op == "deleteSecret"
        failed == "Secret deletion failed"
    IN  IF ~valid.ok
        THEN Effect(uuidCount, {}, {}, {}, {}, Result(op, tenantId, secretId, Wrap(failed, valid)))
        ELSE IF ~deleted.ok
        THEN Effect(uuidCount, {}, {}, {}, {}, Result(op, tenantId, secretId, Wrap(failed, deleted)))
        ELSE Effect(uuidCount, {}, {path}, {}, {}, Result(op, tenantId, secretId, Ok(<< >>)))

\* A listing that hands out the records written for the tenant as they are.
ListSecretsReturnsRecords(tenantId) ==
    LET written == {w \in vaultWritten : w.tenantId = tenantId}
        secrets == IF written = {} THEN << >>
                   ELSE <<[id |-> (CHOOSE w \in written : TRUE).data.metadata.id,
                           value |-> (CHOOSE w \in written : TRUE).value]>>
    IN  Ok([tenantId |-> tenantId, secrets |-> secrets, totalCount |-> Len(secrets)])

\* A failing provider.listSecrets is swallowed: "No secrets found".
ListSecretsOutcome(tenantId) ==
    LET valid == ValidateUUID7(tenantId)
        secretsList == ProviderListSecrets(GetTenantPaths(tenantId).secrets)
        secrets == IF secretsList.ok
                   THEN [i \in 1..Len(secretsList.val.secrets) |->
                            ConvertToVaultMetadata(secretsList.val.secrets[i])]
                   ELSE << >>
    IN  IF ~valid.ok THEN Wrap("Secret listing failed", valid)
        ELSE Ok([tenantId |-> tenantId, secrets |-> secrets, totalCount |-> Len(secrets)])

ListKeysOutcome(tenantId) ==
    LET valid == ValidateUUID7(tenantId)
        keys == GetAllKeys(tenantId)
        activeKey == FindActive(keys)
    IN  IF ~valid.ok THEN Wrap("Key listing failed", valid)
        ELSE Ok([tenantId |-> tenantId, keys |-> keys, activeKeyId |-> activeKey.keyId,
                 totalCount |-> Len(keys)])

ForceArg(force) == IF force THEN "force" ELSE "no-force"

\* The catch of rotateKeys: what was thrown inside, wrapped.
RotateKeysFailed(call, thrown) ==
    Result("rotateKeys", call.tenantId, ForceArg(call.force),
           Wrap("Key rotation failed", thrown))

\* The answer of rotateKeys.
RotateKeysAnswer(call, archivedKeys) ==
    Result("rotateKeys", call.tenantId, ForceArg(call.force),
           Ok([oldKeyId |-> call.activeKey.keyId,
               newKeyId |-> call.made.key.keyId,
               archivedKeys |-> archivedKeys]))

\* The loop of cleanupArchivedKeys where it stands, keysToRemove being the
\* keys it has not come to: deleteKey is called with the first of them, and
\* the provider checks that it is ready at that call.  A deleteKey that
\* throws ends rotateKeys in its catch, the keys deleted before it staying
\* deleted.  After the last key archiveKey returns and rotateKeys lists the
\* archived keys for its answer.
CleanupArchivedKeys(call, keysToRemove) ==
    LET key == Head(keysToRemove)
        deleted == ProviderDeleteKey(key.keyId)
        goesOn == [pc |-> "answer", keysToRemove |-> << >>, archivedKeys |-> << >>,
                   delKeys |-> {}, res |-> NoResult]
    IN  IF keysToRemove = << >>
        THEN [goesOn EXCEPT !.archivedKeys = GetArchivedKeys(call.tenantId)]
        ELSE IF deleted.ok
        THEN [goesOn EXCEPT !.pc = "delete", !.keysToRemove = Tail(keysToRemove),
                            !.delKeys = {key.keyId}]
        ELSE [goesOn EXCEPT !.pc = "done", !.res = RotateKeysFailed(call, deleted)]

\* rotateKeys from the new key on, one await at a time.  Resumed with the
\* new key ("archive"), it answers when there was no active key, and
\* otherwise calls archiveKey, which writes no status: it logs and calls
\* cleanupArchivedKeys, which lists the archived keys.  Resumed with that
\* listing ("cleanup"), it sorts, slices and enters the loop; resumed by a
\* deleteKey ("delete"), it goes on with the loop; resumed with the listing
\* for the answer ("answer"), it answers.
RotateArchiveOutcome(call) ==
    LET returns == [pc |-> "done", keysToRemove |-> << >>, archivedKeys |-> << >>,
                    delKeys |-> {}, res |-> NoResult]
    IN  IF call.pc = "archive"
        THEN IF call.activeKey = NoKey
             THEN [returns EXCEPT !.res = RotateKeysAnswer(call, << >>)]
             ELSE [returns EXCEPT !.pc = "cleanup",
                                  !.archivedKeys = GetArchivedKeys(call.tenantId)]
        ELSE IF call.pc = "cleanup"
        THEN CleanupArchivedKeys(call, KeysToRemove(call.archivedKeys))
        ELSE IF call.pc = "delete"
        THEN CleanupArchivedKeys(call, call.keysToRemove)
        ELSE [returns EXCEPT !.res = RotateKeysAnswer(call, call.archivedKeys)]

NoActiveKeyFound(tenantId, force) ==
    Result("rotateKeys", tenantId, ForceArg(force),
           Err(<<"Key rotation failed", "No active key found for rotation">>))

(***************************************************************************)
(* State after construction: new VaultSecretsProvider(configService), a    *)
(* SecurityService around it, nothing called yet.                          *)
(*                                                                         *)
(* A call of an async method runs without interruption from one await to   *)
(* the next, and other calls run in between.  An operation that reaches    *)
(* the provider once is one step; an operation that reaches it several     *)
(* times is one step for each time, the first one taken when the call is   *)
(* made.  A step that hands nothing back to a caller leaves result at      *)
(* none.                                                                   *)
(***************************************************************************)
Names == {"db-pass"}
Files == { <<"x">> }
NeverStored == "never-stored"
SecretIdInputs == {w.data.metadata.id : w \in vaultWritten} \cup {NeverStored}
RotateCalls == {1, 2}
NothingMade == [ok |-> TRUE, err |-> << >>, uuids |-> 0, keys |-> {}, key |-> NoKey]
EncCalls == {1, 2}
NoCipher == [ciphertext |-> << >>, iv |-> "", algorithm |-> "", keyId |-> NoId]
NoPreceding == [op |-> "none", keyId |-> NoId]
IdleEnc == [pc |-> "idle", op |-> "", tenantId |-> "", name |-> "", value |-> << >>,
            secretId |-> NoId, activeKey |-> NoKey, encrypted |-> NoCipher,
            res |-> NoResult, overlapped |-> FALSE, before |-> NoPreceding,
            activeIds |-> {}, created |-> FALSE]
IdleCall == [pc |-> "idle", tenantId |-> "", force |-> FALSE, activeKey |-> NoKey,
             made |-> NothingMade, keysToRemove |-> << >>, archivedKeys |-> << >>,
             res |-> NoResult, overlapped |-> FALSE, activeIds |-> {}]
IdleRoundTrip == [pc |-> "idle", data |-> << >>, tenantId |-> "", keyId |-> NoId,
                  encrypted |-> NoCipher]

(***************************************************************************)
(* The abuse guard: IpBlacklistService on CacheService and the ipBlacklist *)
(* table.  Times are in milliseconds, as Date.now() gives them.            *)
(***************************************************************************)
MaxClock == 5
MaxCalls == 3

\* The instants at which the model looks at the clock.
ClockTimes == <<0, 1000, 2000, 59500, 60000, 61000, 120000>>
Now == ClockTimes[clock]

CacheTypeVALKEY == "VALKEY"
CacheTypeREDIS == "REDIS"
CacheTypeMEMORY == "MEMORY"
CacheTypes == {CacheTypeVALKEY, CacheTypeREDIS, CacheTypeMEMORY}

IpInputs == {"ip1", "ip2"}
\* The IP that gets blocked; the other one is a bystander.
BlockedIpInputs == {"ip1"}
DurationInputs == {1}
MaxRequestsInputs == {1, 2}
WindowInputs == {2}

\* Number.prototype.toString and parseInt on the numbers a run can store:
\* counters, and the instants block and cache entries end at.
Numbers ==
    (0..(MaxCalls + 1))
    \cup {ClockTimes[i] + d * 60 * 1000 : i \in 1..Len(ClockTimes), d \in DurationInputs}
NumberToString(n) == ToString(n)
ParseInt(s) == CHOOSE n \in Numbers : ToString(n) = s

\* null, as get returns it.
NoValue == ""
\* An item without expiry (undefined).
NoExpiry == -1

\* getFullKey: `${keyPrefix}:${key}` when a prefix is configured.
GetFullKey(key) == IF keyPrefix THEN <<"prefix">> \o key ELSE key

(***************************************************************************)
(* MemoryCacheService on the map c.  A method gives the map it leaves and  *)
(* the value it returns.                                                   *)
(***************************************************************************)
MapWithout(c, k) == [x \in DOMAIN c \ {k} |-> c[x]]
MapWith(c, k, item) == [x \in DOMAIN c \cup {k} |-> IF x = k THEN item ELSE c[x]]

\* item.expiry as a condition: undefined and 0 are both false.
HasExpiry(item) == item.expiry # NoExpiry /\ item.expiry # 0

MemoryGet(c, key) ==
    LET fullKey == GetFullKey(key)
    IN  IF fullKey \notin DOMAIN c THEN [cache |-> c, val |-> NoValue]
        ELSE IF HasExpiry(c[fullKey]) /\ Now > c[fullKey].expiry
        THEN [cache |-> MapWithout(c, fullKey), val |-> NoValue]
        ELSE [cache |-> c, val |-> c[fullKey].value]

\* A set that never records an expiry.
MemorySetWithoutExpiry(c, key, value, ttlSeconds) ==
    MapWith(c, GetFullKey(key), [value |-> value, expiry |-> NoExpiry])

\* set(key, value, ttlSeconds?): no ttl, or a ttl of 0, leaves the item without expiry.
MemorySet(c, key, value, ttlSeconds) ==
    LET fullKey == GetFullKey(key)
        expiry == IF ttlSeconds # 0 THEN Now + ttlSeconds * 1000 ELSE NoExpiry
    IN  MapWith(c, fullKey, [value |-> value, expiry |-> expiry])

\* A del that leaves the item in the map.
MemoryDelKeepsItem(c, key) == c

MemoryDel(c, key) == MapWithout(c, GetFullKey(key))

\* incr reads and writes through get and set with the key it has already
\* prefixed, and writes the new value without a ttl.
MemoryIncrRead(c, key) == MemoryGet(c, GetFullKey(key))

MemoryIncrNewValue(current) ==
    NumberToString(ParseInt(IF current # NoValue THEN current ELSE "0") + 1)

MemoryIncrWrite(c, key, newValue) == MemorySet(c, GetFullKey(key), newValue, 0)

MemoryIncr(c, key) ==
    LET read == MemoryIncrRead(c, key)
        newValue == MemoryIncrNewValue(read.val)
    IN  [cache |-> MemoryIncrWrite(read.cache, key, newValue), val |-> ParseInt(newValue)]

MemoryExpire(c, key, ttlSeconds) ==
    LET fullKey == GetFullKey(key)
    IN  IF fullKey \in DOMAIN c
        THEN MapWith(c, fullKey, [c[fullKey] EXCEPT !.expiry = Now + ttlSeconds * 1000])
        ELSE c

MemoryTtl(c, key) ==
    LET fullKey == GetFullKey(key)
    IN  IF fullKey \notin DOMAIN c \/ ~HasExpiry(c[fullKey]) THEN -1
        ELSE LET remaining == (c[fullKey].expiry - Now) \div 1000
             IN  IF remaining > 0 THEN remaining ELSE -1

(***************************************************************************)
(* CacheService: the client chosen by config.cache.type.  The ValKey and   *)
(* Redis services never create their client: get and ttl catch the         *)
(* TypeError and return null and -1, the other methods rethrow it.         *)
(***************************************************************************)
IsMemory == cacheType = CacheTypeMEMORY
ClientMissing == <<"Cannot read properties of undefined">>

CacheGet(c, key) ==
    IF IsMemory THEN [ok |-> TRUE, err |-> << >>] @@ MemoryGet(c, key)
    ELSE [ok |-> TRUE, err |-> << >>, cache |-> c, val |-> NoValue]

CacheSetex(c, key, ttlSeconds, value) ==
    IF IsMemory
    THEN [ok |-> TRUE, err |-> << >>, cache |-> MemorySet(c, key, value, ttlSeconds), val |-> NoValue]
    ELSE [ok |-> FALSE, err |-> ClientMissing, cache |-> c, val |-> NoValue]

CacheDel(c, key) ==
    IF IsMemory
    THEN [ok |-> TRUE, err |-> << >>, cache |-> MemoryDel(c, key), val |-> NoValue]
    ELSE [ok |-> FALSE, err |-> ClientMissing, cache |-> c, val |-> NoValue]

CacheIncr(c, key) ==
    IF IsMemory THEN [ok |-> TRUE, err |-> << >>] @@ MemoryIncr(c, key)
    ELSE [ok |-> FALSE, err |-> ClientMissing, cache |-> c, val |-> 0]

CacheExpire(c, key, ttlSeconds) ==
    IF IsMemory
    THEN [ok |-> TRUE, err |-> << >>, cache |-> MemoryExpire(c, key, ttlSeconds), val |-> NoValue]
    ELSE [ok |-> FALSE, err |-> ClientMissing, cache |-> c, val |-> NoValue]

CacheTtl(c, key) == IF IsMemory THEN MemoryTtl(c, key) ELSE -1

\* exists(key): an item found expired is deleted.
MemoryExists(c, key) ==
    LET fullKey == GetFullKey(key)
    IN  IF fullKey \notin DOMAIN c THEN [cache |-> c, val |-> FALSE]
        ELSE IF HasExpiry(c[fullKey]) /\ Now > c[fullKey].expiry
        THEN [cache |-> MapWithout(c, fullKey), val |-> FALSE]
        ELSE [cache |-> c, val |-> TRUE]

\* exists catches the TypeError of a service without client and returns false.
CacheExists(c, key) ==
    IF IsMemory THEN [ok |-> TRUE, err |-> << >>] @@ MemoryExists(c, key)
    ELSE [ok |-> TRUE, err |-> << >>, cache |-> c, val |-> FALSE]

\* set(key, value, ttlSeconds?); ttlSeconds is 0 when the argument is left out.
CacheSet(c, key, value, ttlSeconds) ==
    IF IsMemory
    THEN [ok |-> TRUE, err |-> << >>, cache |-> MemorySet(c, key, value, ttlSeconds), val |-> NoValue]
    ELSE [ok |-> FALSE, err |-> ClientMissing, cache |-> c, val |-> NoValue]

\* flushdb: cache.clear().
CacheFlushdb(c) ==
    IF IsMemory
    THEN [ok |-> TRUE, err |-> << >>, cache |-> << >>, val |-> NoValue]
    ELSE [ok |-> FALSE, err |-> ClientMissing, cache |-> c, val |-> NoValue]

\* What healthCheck answers.
Health(healthy, latency, err) ==
    Ok([status |-> IF healthy THEN "healthy" ELSE "unhealthy", latency |-> latency,
        error |-> err])

(***************************************************************************)
(* The ipBlacklist table (model IpBlacklist of the Prisma schema): rows in *)
(* the order created.  A query that fails throws.                          *)
(***************************************************************************)
MaxRows == 2
NoRow == [ip_address |-> "", blocked_until |-> 0, unblocked_at |-> NoDate]
DbError == <<"database error">>

DbRow(ipAddress, blockedUntil) ==
    [ip_address |-> ipAddress, blocked_until |-> blockedUntil, unblocked_at |-> NoDate]

\* findFirst({ip_address, blocked_until: {gt: now}, unblocked_at: null})
DbFindFirst(rows, ipAddress) ==
    LET matching == SelectSeq(rows, LAMBDA r : /\ r.ip_address = ipAddress
                                               /\ r.blocked_until > Now
                                               /\ r.unblocked_at = NoDate)
    IN  IF matching = << >> THEN NoRow ELSE Head(matching)

DbCreate(rows, row) == Append(rows, row)

\* updateMany({ip_address, unblocked_at: null}, {unblocked_at: now})
DbUpdateMany(rows, ipAddress) ==
    [i \in 1..Len(rows) |->
        IF rows[i].ip_address = ipAddress /\ rows[i].unblocked_at = NoDate
        THEN [rows[i] EXCEPT !.unblocked_at = Now]
        ELSE rows[i]]

(***************************************************************************)
(* IpBlacklistService                                                      *)
(***************************************************************************)
BlacklistKey(ipAddress) == <<"blacklist", ipAddress>>
RateLimitKey(ipAddress) == <<"ratelimit", ipAddress>>

\* What a call leaves and gives: the cache, the table, and the outcome.
GuardOut(c, rows, r) == [cache |-> c, db |-> rows, res |-> r]

\* The answer of isIpBlacklisted, with whether get failed inside the cache
\* service (it then returns null) and whether del, setex or the query threw.
Blacklisted(answer, getFailed, threw) ==
    Ok([blacklisted |-> answer, getFailed |-> getFailed, threw |-> threw])

\* The catch block of isIpBlacklisted: fail open.
CaughtFailOpen(c, rows, getFailed) == GuardOut(c, rows, Blacklisted(FALSE, getFailed, TRUE))

IsIpBlacklistedOutcome(c, rows, ipAddress, dbUp) ==
    LET cacheKey == BlacklistKey(ipAddress)
        got == CacheGet(c, cacheKey)
        getFailed == ~IsMemory
        hit == got.val # NoValue
        fresh == hit /\ ParseInt(got.val) > Now
        removed == IF hit /\ ~fresh THEN CacheDel(got.cache, cacheKey) ELSE got
        dbRecord == DbFindFirst(rows, ipAddress)
        ttlSeconds == (dbRecord.blocked_until - Now) \div 1000
        stored == CacheSetex(removed.cache, cacheKey, ttlSeconds,
                             NumberToString(dbRecord.blocked_until))
    IN  IF fresh THEN GuardOut(got.cache, rows, Blacklisted(TRUE, getFailed, FALSE))
        ELSE IF ~removed.ok THEN CaughtFailOpen(removed.cache, rows, getFailed)
        ELSE IF ~dbUp THEN CaughtFailOpen(removed.cache, rows, getFailed)
        ELSE IF dbRecord = NoRow
        THEN GuardOut(removed.cache, rows, Blacklisted(FALSE, getFailed, FALSE))
        ELSE IF ttlSeconds > 0
        THEN IF stored.ok THEN GuardOut(stored.cache, rows, Blacklisted(TRUE, getFailed, FALSE))
             ELSE CaughtFailOpen(stored.cache, rows, getFailed)
        ELSE GuardOut(removed.cache, rows, Blacklisted(TRUE, getFailed, FALSE))

\* The answer of checkRateLimit from the try block, and those of a catch block.
RateAnswer(current, maxRequests, ttl) ==
    [current |-> current,
     allowed |-> current <= maxRequests,
     remaining |-> IF maxRequests - current > 0 THEN maxRequests - current ELSE 0,
     resetTime |-> Now + ttl * 1000,
     failed |-> FALSE]

\* A catch block that answers refused.
RateFailClosed(maxRequests) ==
    [current |-> 0, allowed |-> FALSE, remaining |-> 0, resetTime |-> Now,
     failed |-> TRUE]

RateFailOpen(maxRequests) ==
    [current |-> 0, allowed |-> TRUE, remaining |-> maxRequests, resetTime |-> Now,
     failed |-> TRUE]

RateLogEntry(ipAddress, time, maxRequests, windowSeconds, answer) ==
    [ip |-> ipAddress, time |-> time, maxRequests |-> maxRequests,
     windowSeconds |-> windowSeconds] @@ answer

\* The calls of the guard under way: where each one is, and what it has
\* read so far.  A checkRateLimit call keeps the time it was made at.
RateCalls == {1, 2}
IdleRate == [pc |-> "idle", ip |-> "", at |-> 0, maxRequests |-> 0, windowSeconds |-> 0,
             read |-> NoValue, current |-> 0, ttl |-> 0]

IdleCheck == [pc |-> "idle", ip |-> "", val |-> NoValue, row |-> NoRow, threw |-> FALSE,
              ttlSeconds |-> 0]

IdleBlacklist == [pc |-> "idle", ip |-> "", blockedUntil |-> 0, err |-> << >>,
                  overlapped |-> FALSE]

IdleUnblacklist == [pc |-> "idle", ip |-> "", err |-> << >>, overlapped |-> FALSE]

IdleHealth == [pc |-> "idle", start |-> 0, value |-> NoValue]

\* A service constructed and not used: the default cache type, no prefix.
GuardUnused ==
    /\ cacheType = CacheTypeVALKEY
    /\ keyPrefix = FALSE
    /\ cache = << >>
    /\ db = << >>
    /\ clock = 1
    /\ rateLog = << >>
    /\ rl = [c \in RateCalls |-> IdleRate]
    /\ chk = IdleCheck
    /\ bl = IdleBlacklist
    /\ un = IdleUnblacklist
    /\ hc = IdleHealth

Init ==
    /\ configToken \in BOOLEAN
    /\ isInitialized = FALSE
    /\ status = "disconnected"
    /\ ini = "idle"
    /\ uuidCount = 0
    /\ vaultWritten = {}
    /\ vaultDeleted = {}
    /\ createdKeys = {}
    /\ deletedKeyIds = {}
    /\ result = NoResult
    /\ rot = [c \in RotateCalls |-> IdleCall]
    /\ enc = [c \in EncCalls |-> IdleEnc]
    /\ rt = IdleRoundTrip
    /\ GuardUnused

\* An operation that reaches the provider once: what it gets through to the
\* backend and what it hands back.
Apply(e) ==
    /\ uuidCount' = e.uuids
    /\ vaultWritten' = vaultWritten \cup e.written
    /\ vaultDeleted' = vaultDeleted \cup e.deleted
    /\ createdKeys' = createdKeys \cup e.keys
    /\ deletedKeyIds' = deletedKeyIds \cup e.delKeys
    /\ result' = e.res
    /\ UNCHANGED <<providerVars, callVars, guardVars>>

Answer(res) ==
    /\ result' = res
    /\ UNCHANGED <<providerVars, backendVars, callVars, guardVars>>

ProviderStep(init, st) ==
    /\ isInitialized' = init
    /\ status' = st
    /\ UNCHANGED <<configToken, ini, backendVars, callVars, guardVars>>

(***************************************************************************)
(* initialize(): CONNECTING when the call is made; once authenticate() has *)
(* answered, the error of a missing token (UNHEALTHY, thrown) or the       *)
(* health check, which sets the status its answer gives; once healthCheck  *)
(* has answered, isInitialized and HEALTHY.  One initialize() runs at a    *)
(* time.                                                                   *)
(***************************************************************************)
InitializeCall ==
    /\ ini = "idle"
    /\ ini' = "authenticate"
    /\ status' = "connecting"
    /\ result' = NoResult
    /\ UNCHANGED <<configToken, isInitialized, backendVars, callVars, guardVars>>

\* The health check that initialize() runs on the client it has just made.
InitializeHealthy == VaultClientHealth.initialized /\ ~VaultClientHealth.sealed

InitializeConnect ==
    /\ ini = "authenticate"
    /\ IF configToken
       THEN /\ ini' = "healthCheck"
            /\ status' = IF InitializeHealthy THEN "healthy" ELSE "unhealthy"
            /\ result' = NoResult
       ELSE /\ ini' = "idle"
            /\ status' = "unhealthy"
            /\ result' = Result("initialize", "", NoId,
                                Err(<<"Vault initialization failed", "Vault authentication failed",
                                      "Vault token not provided">>))
    /\ UNCHANGED <<configToken, isInitialized, backendVars, callVars, guardVars>>

InitializeFinish ==
    /\ ini = "healthCheck"
    /\ ini' = "idle"
    /\ isInitialized' = TRUE
    /\ status' = "healthy"
    /\ result' = Result("initialize", "", NoId, Ok(<< >>))
    /\ UNCHANGED <<configToken, backendVars, callVars, guardVars>>

\* healthCheck(): healthy = response.initialized && !response.sealed; the
\* status is written when the client has answered.
HealthCheck ==
    LET response == VaultClientHealth
        healthy == response.initialized /\ ~response.sealed
    IN  /\ ProviderStep(isInitialized, IF healthy THEN "healthy" ELSE "unhealthy")
        /\ result' = Result("healthCheck", "", NoId, Ok([healthy |-> healthy]))

\* validateConfig(): it awaits healthCheck(), which writes the status, and
\* answers with its healthy.
ValidateConfig ==
    LET response == VaultClientHealth
        healthy == response.initialized /\ ~response.sealed
    IN  /\ ProviderStep(isInitialized, IF healthy THEN "healthy" ELSE "unhealthy")
        /\ result' = Result("validateConfig", "", NoId, Ok(healthy))

Dispose ==
    /\ ProviderStep(FALSE, "disconnected")
    /\ result' = Result("dispose", "", NoId, Ok(<< >>))

\* storeSecret, while fewer than maxSecrets records have been written.
StoreSecretUpTo(maxSecrets) ==
    \E t \in TenantInputs, name \in Names, v \in Values :
        /\ uuidCount + 1 <= MaxUuids
        /\ Cardinality(vaultWritten) < maxSecrets
        /\ Apply(StoreSecretEffect(t, name, v))

StoreSecret == StoreSecretUpTo(MaxSecrets)

GetSecret ==
    \E t \in TenantInputs, id \in SecretIdInputs :
        Answer(Result("getSecret", t, id, GetSecretOutcome(t, id)))

\* decryptSecret reaches the provider through getSecret and then through
\* decrypt; the placeholder client's read gives no record, so the call ends
\* at getSecret.
DecryptSecret ==
    \E t \in TenantInputs, id \in SecretIdInputs :
        Answer(Result("decryptSecret", t, id, DecryptSecretOutcome(t, id)))

DeleteSecret ==
    \E t \in TenantInputs, id \in SecretIdInputs :
        /\ Cardinality(vaultDeleted) < MaxDeletes
        /\ Apply(DeleteSecretEffect(t, id))

ListSecrets ==
    \E t \in TenantInputs : Answer(Result("listSecrets", t, NoId, ListSecretsOutcome(t)))

ListKeys ==
    \E t \in TenantInputs : Answer(Result("listKeys", t, NoId, ListKeysOutcome(t)))

(***************************************************************************)
(* rotateKeys.  The call reads the active key when it is made              *)
(* (getActiveKey lists the keys), checks force and creates the new key     *)
(* when it resumes, and archives and answers when it resumes again: at     *)
(* once without an active key, and with one after the listing of           *)
(* cleanupArchivedKeys, each deleteKey of its loop and the listing for the *)
(* answer.                                                                 *)
(* Nothing in rotateKeys holds a lock or checks for another call.          *)
(***************************************************************************)
\* The calls between their first and their last step; overlapped notes that
\* a call ran while another rotation or encryption was in flight.
InFlight == {d \in RotateCalls :
                rot[d].pc \in {"create", "archive", "cleanup", "delete", "answer"}}
EncInFlight == {d \in EncCalls : enc[d].pc \in {"create", "encrypt", "store"}}
Overlapping == InFlight # {} \/ EncInFlight # {}
OverlappedRotations == [d \in RotateCalls |-> [rot[d] EXCEPT !.overlapped = @ \/ d \in InFlight]]
OverlappedEncryptions == [d \in EncCalls |-> [enc[d] EXCEPT !.overlapped = @ \/ d \in EncInFlight]]

\* The keys of a tenant: those created for it and not handed to deleteKey,
\* with the status they were created with (nothing rewrites a status).
KeysOf(t) == {c \in createdKeys : c.tenantId = t}
KeyIdsOf(t) == {c.key.id : c \in KeysOf(t)}
LiveKeys(t) == {c \in KeysOf(t) : c.key.id \notin deletedKeyIds}
ActiveKeys(t) == {c \in LiveKeys(t) : c.key.status = KeyStatusACTIVE}
ArchivedKeys(t) == {c \in LiveKeys(t) : c.key.status = KeyStatusARCHIVED}
ActiveKeyIds(t) == {c.key.id : c \in ActiveKeys(t)}

\* The entry of a call that returns: a call that ran alone leaves it idle; the
\* tenant and the outcome of a call that overlapped another are kept, until
\* the next call.
Returned(call, res, idle) ==
    IF call.overlapped
    THEN [idle EXCEPT !.pc = "done", !.tenantId = call.tenantId, !.res = res,
                      !.overlapped = TRUE]
    ELSE idle

RotateCall(c) ==
    \E t \in TenantInputs, force \in BOOLEAN :
        /\ rot[c].pc \in {"idle", "done"}
        /\ rot' = [OverlappedRotations EXCEPT
                     ![c] = [pc |-> "create", tenantId |-> t, force |-> force,
                             activeKey |-> GetActiveKey(t), made |-> NothingMade,
                             keysToRemove |-> << >>, archivedKeys |-> << >>,
                             res |-> NoResult, overlapped |-> Overlapping,
                             activeIds |-> ActiveKeyIds(t)]]
        /\ enc' = OverlappedEncryptions
        /\ result' = NoResult
        /\ UNCHANGED <<providerVars, backendVars, rt,
                       guardVars>>

\* A rotateKeys that removes the tenant's keys when it fails.
RotateCreateDropsKeysOnFailure(call) ==
    LET made == CreateEncryptionKey(call.tenantId, uuidCount)
        mine == KeyIdsOf(call.tenantId)
    IN  IF call.activeKey = NoKey /\ ~call.force
        THEN [made |-> [NothingMade EXCEPT !.uuids = uuidCount], delKeys |-> mine,
              res |-> NoActiveKeyFound(call.tenantId, call.force)]
        ELSE [made |-> made, delKeys |-> IF made.ok THEN {} ELSE mine,
              res |-> IF made.ok THEN NoResult
                      ELSE RotateKeysFailed(call, Err(made.err))]

\* A rotateKeys without the check of force.
RotateCreateIgnoresForce(call) ==
    LET made == CreateEncryptionKey(call.tenantId, uuidCount)
    IN  [made |-> made, delKeys |-> {},
         res |-> IF made.ok THEN NoResult
                 ELSE RotateKeysFailed(call, Err(made.err))]

\* rotateKeys once getActiveKey has answered: without an active key and
\* without force it throws; otherwise createEncryptionKey.
RotateCreateOutcome(call) ==
    LET made == CreateEncryptionKey(call.tenantId, uuidCount)
    IN  IF call.activeKey = NoKey /\ ~call.force
        THEN [made |-> [NothingMade EXCEPT !.uuids = uuidCount], delKeys |-> {},
              res |-> NoActiveKeyFound(call.tenantId, call.force)]
        ELSE [made |-> made, delKeys |-> {},
              res |-> IF made.ok THEN NoResult
                      ELSE RotateKeysFailed(call, Err(made.err))]

\* The step, while no more than maxUuids ids have been drawn.
RotateCreateUpTo(c, maxUuids) ==
    LET call == rot[c]
        out == RotateCreateOutcome(call)
    IN  /\ call.pc = "create"
        /\ out.made.uuids <= maxUuids
        /\ uuidCount' = out.made.uuids
        /\ createdKeys' = createdKeys \cup out.made.keys
        /\ deletedKeyIds' = deletedKeyIds \cup out.delKeys
        /\ rot' = [rot EXCEPT ![c] = IF out.res = NoResult
                                       THEN [call EXCEPT !.pc = "archive", !.made = out.made]
                                       ELSE Returned(call, out.res, IdleCall)]
        /\ result' = out.res
        /\ UNCHANGED <<providerVars, vaultWritten, vaultDeleted, enc, rt, guardVars>>

RotateCreate(c) == RotateCreateUpTo(c, MaxUuids)

\* A rotateKeys that demotes the keys of the tenant that its new key
\* supersedes to ARCHIVED, and evicts none.
RotateArchiveDemotesOnly(c) ==
    LET call == rot[c]
        out == RotateArchiveOutcome(call)
        Demoted(k) == IF /\ k.tenantId = call.tenantId
                         /\ k.key.id # call.made.key.keyId
                         /\ k.key.status = KeyStatusACTIVE
                      THEN [k EXCEPT !.key.status = KeyStatusARCHIVED]
                      ELSE k
    IN  /\ call.pc \in {"archive", "cleanup", "delete", "answer"}
        /\ createdKeys' = {Demoted(k) : k \in createdKeys}
        /\ deletedKeyIds' = deletedKeyIds \cup out.delKeys
        /\ rot' = [rot EXCEPT ![c] = IF out.res = NoResult
                                       THEN [call EXCEPT !.pc = out.pc,
                                                         !.keysToRemove = out.keysToRemove,
                                                         !.archivedKeys = out.archivedKeys]
                                       ELSE Returned(call, out.res, IdleCall)]
        /\ result' = out.res
        /\ UNCHANGED <<providerVars, uuidCount, vaultWritten, vaultDeleted, enc, rt, guardVars>>

\* rotateKeys once createEncryptionKey has answered, resumed from the await
\* it stands at: a step of RotateArchiveOutcome.
RotateArchive(c) ==
    LET call == rot[c]
        out == RotateArchiveOutcome(call)
    IN  /\ call.pc \in {"archive", "cleanup", "delete", "answer"}
        /\ deletedKeyIds' = deletedKeyIds \cup out.delKeys
        /\ rot' = [rot EXCEPT ![c] = IF out.res = NoResult
                                       THEN [call EXCEPT !.pc = out.pc,
                                                         !.keysToRemove = out.keysToRemove,
                                                         !.archivedKeys = out.archivedKeys]
                                       ELSE Returned(call, out.res, IdleCall)]
        /\ result' = out.res
        /\ UNCHANGED <<providerVars, uuidCount, vaultWritten, vaultDeleted, createdKeys, enc,
                       rt, guardVars>>

(***************************************************************************)
(* encryptAndStoreSecret and encryptFile.  A call runs to its first await  *)
(* on the provider (the key listing of getActiveKey); when it resumes it   *)
(* creates the key where it saw none; when it resumes again it encrypts;   *)
(* encryptFile then returns, and encryptAndStoreSecret resumes once more   *)
(* to store the record and return.                                         *)
(***************************************************************************)
\* What the call that returned just before a call for the tenant is made gave
\* the tenant: the key id of an encryption, the new key id of a rotation.
Preceding(r, t) ==
    IF r.ok /\ r.tenantId = t /\ r.op \in {"encryptAndStoreSecret", "encryptFile"}
    THEN [op |-> "encrypt", keyId |-> r.ret.keyId]
    ELSE IF r.ok /\ r.tenantId = t /\ r.op = "rotateKeys"
    THEN [op |-> "rotateKeys", keyId |-> r.ret.newKeyId]
    ELSE NoPreceding

\* The call up to the listing of the keys: validateUUID7, the secret id of
\* encryptAndStoreSecret, getActiveKey.
EncStart(c, op, t, name, v) ==
    LET valid == ValidateUUID7(t)
        stores == op = "encryptAndStoreSecret"
        drawn == IF valid.ok /\ stores THEN 1 ELSE 0
        thrown == Result(op, t, NoId,
                         IF stores THEN valid ELSE Wrap("File encryption failed", valid))
        call == [pc |-> "create",
                 op |-> op, tenantId |-> t, name |-> name, value |-> v,
                 secretId |-> IF drawn = 1 THEN GenerateV7(uuidCount + 1) ELSE NoId,
                 activeKey |-> GetActiveKey(t),
                 encrypted |-> NoCipher,
                 res |-> NoResult,
                 overlapped |-> Overlapping,
                 before |-> Preceding(result, t),
                 activeIds |-> ActiveKeyIds(t),
                 created |-> FALSE]
    IN  /\ enc[c].pc \in {"idle", "done"}
        /\ uuidCount + drawn <= MaxUuids
        /\ uuidCount' = uuidCount + drawn
        /\ enc' = [OverlappedEncryptions EXCEPT ![c] = IF valid.ok THEN call ELSE IdleEnc]
        /\ rot' = OverlappedRotations
        /\ result' = IF valid.ok THEN NoResult ELSE thrown
        /\ UNCHANGED <<providerVars, vaultWritten, vaultDeleted, createdKeys, deletedKeyIds,
                       rt, guardVars>>

EncryptAndStoreSecretCallUpTo(c, maxSecrets) ==
    \E t \in TenantInputs, name \in Names, v \in Values :
        /\ Cardinality(vaultWritten) < maxSecrets
        /\ EncStart(c, "encryptAndStoreSecret", t, name, v)

EncryptAndStoreSecretCall(c) == EncryptAndStoreSecretCallUpTo(c, MaxSecrets)

EncryptFileCall(c) ==
    \E t \in TenantInputs, f \in Files : EncStart(c, "encryptFile", t, "", f)

\* What a call that fails hands back: encryptFile wraps the error.
EncThrown(call, r) ==
    Result(call.op, call.tenantId, NoId,
           IF call.op = "encryptAndStoreSecret" THEN r ELSE Wrap("File encryption failed", r))

\* ensureActiveKey after getActiveKey: the key seen, or createEncryptionKey.
EncCreateOutcome(call) ==
    LET made == CreateEncryptionKey(call.tenantId, uuidCount)
    IN  IF call.activeKey # NoKey
        THEN [uuids |-> uuidCount, keys |-> {}, key |-> call.activeKey, created |-> FALSE,
              res |-> NoResult]
        ELSE [uuids |-> made.uuids, keys |-> made.keys, key |-> made.key, created |-> made.ok,
              res |-> IF made.ok THEN NoResult ELSE EncThrown(call, Err(made.err))]

EncCreate(c) ==
    LET call == enc[c]
        out == EncCreateOutcome(call)
    IN  /\ call.pc = "create"
        /\ out.uuids <= MaxUuids
        /\ uuidCount' = out.uuids
        /\ createdKeys' = createdKeys \cup out.keys
        /\ enc' = [enc EXCEPT ![c] = IF out.res = NoResult
                                       THEN [call EXCEPT !.pc = "encrypt", !.activeKey = out.key,
                                                         !.created = out.created]
                                       ELSE Returned(call, out.res, IdleEnc)]
        /\ result' = out.res
        /\ UNCHANGED <<providerVars, vaultWritten, vaultDeleted, deletedKeyIds, rot,
                       rt, guardVars>>

\* provider.encrypt with the key ensureActiveKey gave; encryptFile returns
\* what it gets.
EncEncryptOutcome(call) ==
    LET encrypted == ProviderEncrypt(call.value, call.activeKey.keyId)
    IN  IF ~encrypted.ok
        THEN [encrypted |-> NoCipher, res |-> EncThrown(call, encrypted)]
        ELSE IF call.op = "encryptAndStoreSecret"
        THEN [encrypted |-> encrypted.val, res |-> NoResult]
        ELSE [encrypted |-> encrypted.val,
              res |-> Result(call.op, call.tenantId, NoId,
                             Ok([encryptedData |-> encrypted.val.ciphertext,
                                 keyId |-> call.activeKey.keyId,
                                 algorithm |-> encrypted.val.algorithm,
                                 iv |-> encrypted.val.iv,
                                 originalSize |-> StrLength(call.value)]))]

EncEncrypt(c) ==
    LET call == enc[c]
        out == EncEncryptOutcome(call)
    IN  /\ call.pc = "encrypt"
        /\ enc' = [enc EXCEPT ![c] = IF out.res = NoResult
                                       THEN [call EXCEPT !.pc = "store", !.encrypted = out.encrypted]
                                       ELSE Returned(call, out.res, IdleEnc)]
        /\ result' = out.res
        /\ UNCHANGED <<providerVars, backendVars, rot, rt,
                       guardVars>>

\* encryptAndStoreSecret once encrypt has answered: setSecret, and the
\* SecretResponse.
EncStoreOutcome(call) ==
    LET path == SecretPath(call.tenantId, call.secretId)
        metadata == Metadata(call.secretId, call.name, path, call.value)
        secretData == [kind |-> "enc", encryptedData |-> call.encrypted, metadata |-> metadata]
        set == ProviderSetSecret(path, secretData)
    IN  IF ~set.ok
        THEN [written |-> {}, res |-> EncThrown(call, set)]
        ELSE [written |-> {Written(call.tenantId, call.value, path, secretData)},
              res |-> Result(call.op, call.tenantId, NoId,
                             Ok([id |-> call.secretId, tenantId |-> call.tenantId,
                                 name |-> call.name, kind |-> "enc",
                                 encryptedData |-> call.encrypted.ciphertext,
                                 keyId |-> call.activeKey.keyId,
                                 algorithm |-> call.encrypted.algorithm,
                                 iv |-> call.encrypted.iv,
                                 metadata |-> ConvertToVaultMetadata(metadata)]))]

EncStore(c) ==
    LET call == enc[c]
        out == EncStoreOutcome(call)
    IN  /\ call.pc = "store"
        /\ vaultWritten' = vaultWritten \cup out.written
        /\ enc' = [enc EXCEPT ![c] = Returned(call, out.res, IdleEnc)]
        /\ result' = out.res
        /\ UNCHANGED <<providerVars, uuidCount, vaultDeleted, createdKeys, deletedKeyIds, rot,
                       rt, guardVars>>

Next ==
    \/ InitializeCall
    \/ InitializeConnect
    \/ InitializeFinish
    \/ HealthCheck
    \/ ValidateConfig
    \/ Dispose
    \/ StoreSecret
    \/ \E c \in EncCalls : EncryptAndStoreSecretCall(c)
    \/ \E c \in EncCalls : EncryptFileCall(c)
    \/ \E c \in EncCalls : EncCreate(c)
    \/ \E c \in EncCalls : EncEncrypt(c)
    \/ \E c \in EncCalls : EncStore(c)
    \/ GetSecret
    \/ DecryptSecret
    \/ DeleteSecret
    \/ ListSecrets
    \/ ListKeys
    \/ \E c \in RotateCalls : RotateCall(c)
    \/ \E c \in RotateCalls : RotateCreate(c)
    \/ \E c \in RotateCalls : RotateArchive(c)

Spec == Init /\ [][Next]_vars

\* The key lifecycle: the operations that read, create or delete keys.  The
\* calls of the service are made one at a time, each when the one before
\* has returned; the provider is initialized and disposed at any step.
NextKeys ==
    \/ InitializeCall
    \/ InitializeConnect
    \/ InitializeFinish
    \/ Dispose
    \/ ~Overlapping /\ EncryptAndStoreSecretCall(1)
    \/ ~Overlapping /\ EncryptFileCall(1)
    \/ EncCreate(1)
    \/ EncEncrypt(1)
    \/ EncStore(1)
    \/ ~Overlapping /\ ListKeys
    \/ ~Overlapping /\ RotateCall(1)
    \/ RotateCreate(1)
    \/ RotateArchive(1)

SpecKeys == Init /\ [][NextKeys]_vars

\* Rotations only: every key is made by a rotateKeys call, the calls are
\* made one at a time, and up to MaxRotationUuids keys are made.
NextRotate ==
    \/ InitializeCall
    \/ InitializeConnect
    \/ InitializeFinish
    \/ Dispose
    \/ ~Overlapping /\ ListKeys
    \/ ~Overlapping /\ RotateCall(1)
    \/ RotateCreateUpTo(1, MaxRotationUuids)
    \/ RotateArchive(1)

SpecRotate == Init /\ [][NextRotate]_vars

\* Encrypted secrets across rotations: a secret is stored, keys are rotated,
\* the secret is read back.
NextDecrypt ==
    \/ InitializeCall
    \/ InitializeConnect
    \/ InitializeFinish
    \/ ~Overlapping /\ EncryptAndStoreSecretCall(1)
    \/ EncCreate(1)
    \/ EncEncrypt(1)
    \/ EncStore(1)
    \/ ~Overlapping /\ RotateCall(1)
    \/ RotateCreate(1)
    \/ RotateArchive(1)
    \/ ~Overlapping /\ DecryptSecret

SpecDecrypt == Init /\ [][NextDecrypt]_vars

\* The secret records: the operations that write or read them.
NextSecrets ==
    \/ InitializeCall
    \/ InitializeConnect
    \/ InitializeFinish
    \/ HealthCheck
    \/ ValidateConfig
    \/ Dispose
    \/ ~Overlapping /\ StoreSecret
    \/ ~Overlapping /\ EncryptAndStoreSecretCall(1)
    \/ EncCreate(1)
    \/ EncEncrypt(1)
    \/ EncStore(1)
    \/ ~Overlapping /\ GetSecret
    \/ ~Overlapping /\ DecryptSecret
    \/ ~Overlapping /\ ListSecrets

SpecSecrets == Init /\ [][NextSecrets]_vars

\* rotateKeys calls that overlap.
NextConc ==
    \/ ~Overlapping /\ InitializeCall
    \/ InitializeConnect
    \/ InitializeFinish
    \/ \E c \in RotateCalls : RotateCall(c)
    \/ \E c \in RotateCalls : RotateCreate(c)
    \/ \E c \in RotateCalls : RotateArchive(c)

SpecConc == Init /\ [][NextConc]_vars

\* encryptAndStoreSecret and encryptFile calls that overlap.
NextEncConc ==
    \/ ~Overlapping /\ InitializeCall
    \/ InitializeConnect
    \/ InitializeFinish
    \/ \E c \in EncCalls : EncryptAndStoreSecretCall(c)
    \/ \E c \in EncCalls : EncryptFileCall(c)
    \/ \E c \in EncCalls : EncCreate(c)
    \/ \E c \in EncCalls : EncEncrypt(c)
    \/ \E c \in EncCalls : EncStore(c)

SpecEncConc == Init /\ [][NextEncConc]_vars

(***************************************************************************)
(* SecretsServiceFactory.createProvider.  The selector is the value of     *)
(* SECRETS_PROVIDER when the call is made ("" when unset); the provider    *)
(* it constructs takes the place of the one in use.                        *)
(***************************************************************************)
SecretsProviderTypes == {"vault", "aws", "azure", "gcp", "local"}
SelectorInputs == SecretsProviderTypes \cup {"", "hashicorp"}

\* getProviderTypeFromConfig: the selector if it is a member of the enum,
\* Vault otherwise.
GetProviderTypeFromConfig(selector) ==
    IF selector # "" /\ selector \in SecretsProviderTypes THEN selector ELSE "vault"

\* An initialize() that leaves the status as healthCheck set it.
InitializeKeepsHealthStatus(token) ==
    LET healthy == VaultClientHealth.initialized /\ ~VaultClientHealth.sealed
    IN  IF token
        THEN [ok |-> TRUE, init |-> TRUE,
              status |-> IF healthy THEN "healthy" ELSE "unhealthy", err |-> << >>]
        ELSE [ok |-> FALSE, init |-> FALSE, status |-> "unhealthy",
              err |-> <<"Vault initialization failed", "Vault authentication failed",
                        "Vault token not provided">>]

\* initialize() of a provider just constructed: authenticate with the token,
\* healthCheck, then isInitialized = true and status = HEALTHY.
InitializeOutcome(token) ==
    IF token
    THEN [ok |-> TRUE, init |-> TRUE, status |-> "healthy", err |-> << >>]
    ELSE [ok |-> FALSE, init |-> FALSE, status |-> "unhealthy",
          err |-> <<"Vault initialization failed", "Vault authentication failed",
                    "Vault token not provided">>]

Created(ok, err, constructed, providerType, ready) ==
    [ok |-> ok, err |-> err,
     val |-> [constructed |-> constructed, type |-> providerType, ready |-> ready]]

CreateProviderOutcome(selector) ==
    LET providerType == GetProviderTypeFromConfig(selector)
        initialized == InitializeOutcome(configToken)
    IN  IF providerType = "vault"
        THEN [init |-> initialized.init, status |-> initialized.status,
              res |-> Created(initialized.ok, initialized.err, TRUE, providerType,
                              initialized.ok /\ initialized.init
                                  /\ initialized.status = "healthy")]
        ELSE [init |-> isInitialized, status |-> status,
              res |-> Created(FALSE, <<providerType, "provider not implemented yet">>,
                              FALSE, providerType, FALSE)]

CreateProvider ==
    \E selector \in SelectorInputs :
        LET out == CreateProviderOutcome(selector)
        IN  /\ ProviderStep(out.init, out.status)
            /\ result' = Result("createProvider", "", selector, out.res)

NextFactory ==
    \/ CreateProvider
    \/ HealthCheck
    \/ ValidateConfig
    \/ Dispose
    \/ StoreSecret
    \/ GetSecret

SpecFactory == Init /\ [][NextFactory]_vars

(***************************************************************************)
(* The abuse guard's actions.  The secrets engine is constructed and left  *)
(* alone; the cache type and prefix are what the configuration says, and   *)
(* the table may hold a block written before this process started.         *)
(*                                                                         *)
(* A cache or table operation takes effect when it is called; the caller   *)
(* sees what it gave when it resumes, and other calls and the clock run in *)
(* between.  One call of each operation is under way at a time.            *)
(***************************************************************************)
EarlierBlock == DbRow("ip1", 60000)

InitGuard ==
    /\ configToken = FALSE
    /\ isInitialized = FALSE
    /\ status = "disconnected"
    /\ ini = "idle"
    /\ uuidCount = 0
    /\ vaultWritten = {}
    /\ vaultDeleted = {}
    /\ createdKeys = {}
    /\ deletedKeyIds = {}
    /\ result = NoResult
    /\ rot = [c \in RotateCalls |-> IdleCall]
    /\ enc = [c \in EncCalls |-> IdleEnc]
    /\ rt = IdleRoundTrip
    /\ cacheType \in CacheTypes
    /\ keyPrefix \in BOOLEAN
    /\ cache = << >>
    /\ db \in {<< >>, <<EarlierBlock>>}
    /\ clock = 1
    /\ rateLog = << >>
    /\ rl = [c \in RateCalls |-> IdleRate]
    /\ chk = IdleCheck
    /\ bl = IdleBlacklist
    /\ un = IdleUnblacklist
    /\ hc = IdleHealth

\* Time passes.
Tick ==
    /\ clock < MaxClock
    /\ clock' = clock + 1
    /\ UNCHANGED <<engineVars, result, cacheType, keyPrefix, cache, db, rateLog, rl, chk, bl, un, hc>>

\* A blacklistIp or unblacklistIp under way notes that another call ran
\* during it.
Disturbed(call) == [call EXCEPT !.overlapped = @ \/ call.pc # "idle"]

(***************************************************************************)
(* isIpBlacklisted: the cache lookup when the call is made; the look at    *)
(* the entry, with the del of an expired one or else the query, when get   *)
(* has answered; the query when del has answered; the setex when the query *)
(* has answered; the return when setex has answered.                       *)
(***************************************************************************)
CheckEnd(answer, threw) ==
    /\ chk' = IdleCheck
    /\ result' = Result("isIpBlacklisted", "", chk.ip, Blacklisted(answer, ~IsMemory, threw))

\* The catch block runs: the answer it gives.
CheckCaught == CheckEnd(CaughtFailOpen(cache, db, ~IsMemory).res.val.blacklisted, TRUE)

\* findFirst is called: the row it finds, or that it throws.
CheckQueried(dbUp) ==
    [chk EXCEPT !.pc = "queried",
                !.row = IF dbUp THEN DbFindFirst(db, chk.ip) ELSE NoRow,
                !.threw = ~dbUp]

ChkGet ==
    \E ip \in IpInputs :
        LET got == CacheGet(cache, BlacklistKey(ip))
        IN  /\ chk.pc = "idle"
            /\ cache' = got.cache
            /\ chk' = [IdleCheck EXCEPT !.pc = "got", !.ip = ip, !.val = got.val]
            /\ bl' = Disturbed(bl)
            /\ un' = Disturbed(un)
            /\ result' = NoResult
            /\ UNCHANGED <<engineVars, cacheType, keyPrefix, db, clock, rateLog, rl, hc>>

ChkExpiry ==
    \E dbUp \in BOOLEAN :
        LET hit == chk.val # NoValue
            fresh == hit /\ ParseInt(chk.val) > Now
            removed == CacheDel(cache, BlacklistKey(chk.ip))
        IN  /\ chk.pc = "got"
            /\ IF fresh
               THEN /\ CheckEnd(TRUE, FALSE)
                    /\ UNCHANGED cache
               ELSE IF hit
               THEN /\ cache' = removed.cache
                    /\ chk' = [chk EXCEPT !.pc = IF removed.ok THEN "deleted" ELSE "caught"]
                    /\ result' = NoResult
               ELSE /\ chk' = CheckQueried(dbUp)
                    /\ result' = NoResult
                    /\ UNCHANGED cache
            /\ UNCHANGED <<engineVars, cacheType, keyPrefix, db, clock, rateLog, rl, bl, un, hc>>

ChkQuery ==
    \E dbUp \in BOOLEAN :
        /\ chk.pc = "deleted"
        /\ chk' = CheckQueried(dbUp)
        /\ result' = NoResult
        /\ UNCHANGED <<engineVars, cacheType, keyPrefix, cache, db, clock, rateLog, rl, bl, un, hc>>

ChkStore ==
    LET ttlSeconds == (chk.row.blocked_until - Now) \div 1000
        stored == CacheSetex(cache, BlacklistKey(chk.ip), ttlSeconds,
                             NumberToString(chk.row.blocked_until))
    IN  /\ chk.pc = "queried"
        /\ IF chk.threw
           THEN /\ CheckCaught
                /\ UNCHANGED cache
           ELSE IF chk.row = NoRow
           THEN /\ CheckEnd(FALSE, FALSE)
                /\ UNCHANGED cache
           ELSE IF ttlSeconds > 0
           THEN /\ cache' = stored.cache
                /\ chk' = [chk EXCEPT !.pc = IF stored.ok THEN "stored" ELSE "caught",
                                      !.ttlSeconds = ttlSeconds]
                /\ result' = NoResult
           ELSE /\ CheckEnd(TRUE, FALSE)
                /\ UNCHANGED cache
        /\ UNCHANGED <<engineVars, cacheType, keyPrefix, db, clock, rateLog, rl, bl, un, hc>>

ChkReturn ==
    /\ chk.pc \in {"stored", "caught"}
    /\ IF chk.pc = "caught" THEN CheckCaught ELSE CheckEnd(TRUE, FALSE)
    /\ UNCHANGED <<engineVars, cacheType, keyPrefix, cache, db, clock, rateLog, rl, bl, un, hc>>

(***************************************************************************)
(* blacklistIp: blockedUntil and the setex when the call is made; the      *)
(* create when setex has answered; the return when create has answered.    *)
(* An error is rethrown.                                                   *)
(***************************************************************************)
BlacklistCall ==
    \E ip \in BlockedIpInputs, durationMinutes \in DurationInputs :
        LET blockedUntil == Now + durationMinutes * 60 * 1000
            ttlSeconds == durationMinutes * 60
            stored == CacheSetex(cache, BlacklistKey(ip), ttlSeconds,
                                 NumberToString(blockedUntil))
        IN  /\ bl.pc = "idle"
            /\ Len(db) < MaxRows
            /\ cache' = stored.cache
            /\ bl' = [pc |-> "create", ip |-> ip, blockedUntil |-> blockedUntil,
                      err |-> stored.err, overlapped |-> chk.pc # "idle" \/ un.pc # "idle"]
            /\ un' = Disturbed(un)
            /\ result' = NoResult
            /\ UNCHANGED <<engineVars, cacheType, keyPrefix, db, clock, rateLog, rl, chk, hc>>

BlacklistCreate ==
    \E dbUp \in BOOLEAN :
        /\ bl.pc = "create"
        /\ IF bl.err # << >>
           THEN /\ bl' = IdleBlacklist
                /\ result' = Result("blacklistIp", "", bl.ip, Err(bl.err))
                /\ UNCHANGED db
           ELSE /\ db' = IF dbUp THEN DbCreate(db, DbRow(bl.ip, bl.blockedUntil)) ELSE db
                /\ bl' = [bl EXCEPT !.pc = "return", !.err = IF dbUp THEN << >> ELSE DbError]
                /\ result' = NoResult
        /\ UNCHANGED <<engineVars, cacheType, keyPrefix, cache, clock, rateLog, rl, chk, un, hc>>

BlacklistReturn ==
    /\ bl.pc = "return"
    /\ bl' = IdleBlacklist
    /\ result' = Result("blacklistIp", "", bl.ip, IF bl.err = << >> THEN Ok(<< >>) ELSE Err(bl.err))
    /\ UNCHANGED <<engineVars, cacheType, keyPrefix, cache, db, clock, rateLog, rl, chk, un, hc>>

(***************************************************************************)
(* unblacklistIp: the del when the call is made; the updateMany when del   *)
(* has answered; the return when updateMany has answered.  An error is     *)
(* rethrown.                                                               *)
(***************************************************************************)
UnblacklistCall ==
    \E ip \in IpInputs :
        LET removed == CacheDel(cache, BlacklistKey(ip))
        IN  /\ un.pc = "idle"
            /\ cache' = removed.cache
            /\ un' = [pc |-> "update", ip |-> ip, err |-> removed.err,
                      overlapped |-> chk.pc # "idle" \/ bl.pc # "idle"]
            /\ bl' = Disturbed(bl)
            /\ result' = NoResult
            /\ UNCHANGED <<engineVars, cacheType, keyPrefix, db, clock, rateLog, rl, chk, hc>>

UnblacklistUpdate ==
    \E dbUp \in BOOLEAN :
        /\ un.pc = "update"
        /\ IF un.err # << >>
           THEN /\ un' = IdleUnblacklist
                /\ result' = Result("unblacklistIp", "", un.ip, Err(un.err))
                /\ UNCHANGED db
           ELSE /\ db' = IF dbUp THEN DbUpdateMany(db, un.ip) ELSE db
                /\ un' = [un EXCEPT !.pc = "return", !.err = IF dbUp THEN << >> ELSE DbError]
                /\ result' = NoResult
        /\ UNCHANGED <<engineVars, cacheType, keyPrefix, cache, clock, rateLog, rl, chk, bl, hc>>

UnblacklistReturn ==
    /\ un.pc = "return"
    /\ un' = IdleUnblacklist
    /\ result' = Result("unblacklistIp", "", un.ip, IF un.err = << >> THEN Ok(<< >>) ELSE Err(un.err))
    /\ UNCHANGED <<engineVars, cacheType, keyPrefix, cache, db, clock, rateLog, rl, chk, bl, hc>>

\* isIpBlacklisted calls and unblacklistIp calls.
NextCheckConc ==
    \/ ChkGet
    \/ ChkExpiry
    \/ ChkQuery
    \/ ChkStore
    \/ ChkReturn
    \/ UnblacklistCall
    \/ UnblacklistUpdate
    \/ UnblacklistReturn
    \/ Tick

SpecCheckConc == InitGuard /\ [][NextCheckConc]_vars

(***************************************************************************)
(* checkRateLimit.  MemoryCacheService.incr reads the counter when the     *)
(* call is made and writes the new value when get has answered;            *)
(* checkRateLimit sets the expiry of a first request when incr has         *)
(* answered, reads the ttl, and answers when ttl has answered.  A service  *)
(* without client throws in incr, and the catch block answers.             *)
(***************************************************************************)
RateInFlight == {d \in RateCalls : rl[d].pc # "idle"}

RateStart(c) ==
    \E ip \in IpInputs, maxRequests \in MaxRequestsInputs, windowSeconds \in WindowInputs :
        LET read == MemoryIncrRead(cache, RateLimitKey(ip))
        IN  /\ rl[c].pc = "idle"
            /\ Len(rateLog) + Cardinality(RateInFlight) < MaxCalls
            /\ cache' = IF IsMemory THEN read.cache ELSE cache
            /\ rl' = [rl EXCEPT ![c] = [IdleRate EXCEPT !.pc = IF IsMemory THEN "write" ELSE "caught",
                                                        !.ip = ip,
                                                        !.at = Now,
                                                        !.maxRequests = maxRequests,
                                                        !.windowSeconds = windowSeconds,
                                                        !.read = IF IsMemory THEN read.val
                                                                 ELSE NoValue]]
            /\ result' = NoResult
            /\ UNCHANGED <<engineVars, cacheType, keyPrefix, db, clock, rateLog, chk, bl, un, hc>>

RateWrite(c) ==
    LET newValue == MemoryIncrNewValue(rl[c].read)
    IN  /\ rl[c].pc = "write"
        /\ cache' = MemoryIncrWrite(cache, RateLimitKey(rl[c].ip), newValue)
        /\ rl' = [rl EXCEPT ![c].pc = "expire", ![c].current = ParseInt(newValue)]
        /\ result' = NoResult
        /\ UNCHANGED <<engineVars, cacheType, keyPrefix, db, clock, rateLog, chk, bl, un, hc>>

\* incr has answered: the expire of a first request, or else the ttl.
RateExpire(c) ==
    LET key == RateLimitKey(rl[c].ip)
        expired == CacheExpire(cache, key, rl[c].windowSeconds)
    IN  /\ rl[c].pc = "expire"
        /\ IF rl[c].current = 1
           THEN /\ cache' = expired.cache
                /\ rl' = [rl EXCEPT ![c].pc = IF expired.ok THEN "ttl" ELSE "caught"]
           ELSE /\ rl' = [rl EXCEPT ![c].pc = "return", ![c].ttl = CacheTtl(cache, key)]
                /\ UNCHANGED cache
        /\ result' = NoResult
        /\ UNCHANGED <<engineVars, cacheType, keyPrefix, db, clock, rateLog, chk, bl, un, hc>>

RateTtl(c) ==
    /\ rl[c].pc = "ttl"
    /\ rl' = [rl EXCEPT ![c].pc = "return", ![c].ttl = CacheTtl(cache, RateLimitKey(rl[c].ip))]
    /\ result' = NoResult
    /\ UNCHANGED <<engineVars, cacheType, keyPrefix, cache, db, clock, rateLog, chk, bl, un, hc>>

\* The answer of checkRateLimit, from the try block or from the catch block.
RateReturn(c) ==
    LET answer == IF rl[c].pc = "caught" THEN RateFailOpen(rl[c].maxRequests)
                  ELSE RateAnswer(rl[c].current, rl[c].maxRequests, rl[c].ttl)
    IN  /\ rl[c].pc \in {"return", "caught"}
        /\ rl' = [rl EXCEPT ![c] = IdleRate]
        /\ rateLog' = Append(rateLog, RateLogEntry(rl[c].ip, rl[c].at, rl[c].maxRequests,
                                                   rl[c].windowSeconds, answer))
        /\ result' = Result("checkRateLimit", "", rl[c].ip, Ok(answer))
        /\ UNCHANGED <<engineVars, cacheType, keyPrefix, cache, db, clock, chk, bl, un, hc>>

\* checkRateLimit calls made one after the other.
NextRateLimit ==
    \/ RateStart(1)
    \/ RateWrite(1)
    \/ RateExpire(1)
    \/ RateTtl(1)
    \/ RateReturn(1)
    \/ Tick

SpecRateLimit == InitGuard /\ [][NextRateLimit]_vars

\* checkRateLimit calls that overlap inside one window: no time passes.
NextRateConc ==
    \/ \E c \in RateCalls : RateStart(c)
    \/ \E c \in RateCalls : RateWrite(c)
    \/ \E c \in RateCalls : RateExpire(c)
    \/ \E c \in RateCalls : RateTtl(c)
    \/ \E c \in RateCalls : RateReturn(c)

SpecRateConc == InitGuard /\ [][NextRateConc]_vars

(***************************************************************************)
(* CacheService as its callers see it: set, exists, flushdb and            *)
(* healthCheck, next to the methods the guard calls.  set, exists and      *)
(* flushdb reach the client once, when they are called.  healthCheck of    *)
(* the memory client awaits set('health_check', 'ok', 10) and then         *)
(* get('health_check'); the ValKey and Redis clients throw at ping and     *)
(* the catch block answers.  One healthCheck is under way at a time.       *)
(***************************************************************************)
HealthCheckKey == <<"health_check">>
CacheKeyInputs == {BlacklistKey("ip1"), RateLimitKey("ip1")}
CacheValueInputs == {"120000"}
CacheTtlInputs == {0, 60}

CacheServiceSet ==
    \E key \in CacheKeyInputs, value \in CacheValueInputs, ttlSeconds \in CacheTtlInputs :
        LET out == CacheSet(cache, key, value, ttlSeconds)
        IN  /\ cache' = out.cache
            /\ result' = Result("set", "", key[1], IF out.ok THEN Ok(<< >>) ELSE Err(out.err))
            /\ UNCHANGED <<engineVars, cacheType, keyPrefix, db, clock, rateLog, rl, chk, bl, un, hc>>

CacheServiceExists ==
    \E key \in CacheKeyInputs \cup {HealthCheckKey} :
        LET out == CacheExists(cache, key)
        IN  /\ cache' = out.cache
            /\ result' = Result("exists", "", key[1], Ok([exists |-> out.val]))
            /\ UNCHANGED <<engineVars, cacheType, keyPrefix, db, clock, rateLog, rl, chk, bl, un, hc>>

\* flushdb empties the map; a blacklistIp or unblacklistIp under way is
\* disturbed by it.
CacheServiceFlushdb ==
    LET out == CacheFlushdb(cache)
    IN  /\ cache' = out.cache
        /\ bl' = Disturbed(bl)
        /\ un' = Disturbed(un)
        /\ result' = Result("flushdb", "", NoId, IF out.ok THEN Ok(<< >>) ELSE Err(out.err))
        /\ UNCHANGED <<engineVars, cacheType, keyPrefix, db, clock, rateLog, rl, chk, hc>>

\* healthCheck is called: start = Date.now(), and the set of the memory
\* client or the ping that throws.
HealthCheckCall ==
    /\ hc.pc = "idle"
    /\ IF IsMemory
       THEN /\ cache' = MemorySet(cache, HealthCheckKey, "ok", 10)
            /\ hc' = [pc |-> "get", start |-> Now, value |-> NoValue]
       ELSE /\ hc' = [pc |-> "caught", start |-> Now, value |-> NoValue]
            /\ UNCHANGED cache
    /\ result' = NoResult
    /\ UNCHANGED <<engineVars, cacheType, keyPrefix, db, clock, rateLog, rl, chk, bl, un>>

\* set has answered: the get.
HealthCheckGet ==
    LET got == MemoryGet(cache, HealthCheckKey)
    IN  /\ hc.pc = "get"
        /\ cache' = got.cache
        /\ hc' = [hc EXCEPT !.pc = "return", !.value = got.val]
        /\ result' = NoResult
        /\ UNCHANGED <<engineVars, cacheType, keyPrefix, db, clock, rateLog, rl, chk, bl, un>>

\* get has answered: latency = Date.now() - start.  The catch block took its
\* latency when ping threw, at the call.
HealthCheckReturn ==
    LET latency == IF hc.pc = "caught" THEN 0 ELSE Now - hc.start
    IN  /\ hc.pc \in {"return", "caught"}
        /\ hc' = IdleHealth
        /\ result' = Result("cacheHealthCheck", "", NoId,
                            IF hc.pc = "caught" THEN Health(FALSE, latency, ClientMissing)
                            ELSE IF hc.value = "ok" THEN Health(TRUE, latency, << >>)
                            ELSE Health(FALSE, latency, <<"Memory cache health check failed">>))
        /\ UNCHANGED <<engineVars, cacheType, keyPrefix, cache, db, clock, rateLog, rl, chk, bl, un>>

\* The guard's blacklist calls, with the cache flushed at any moment.
NextBlacklist ==
    \/ ChkGet
    \/ ChkExpiry
    \/ ChkQuery
    \/ ChkStore
    \/ ChkReturn
    \/ BlacklistCall
    \/ BlacklistCreate
    \/ BlacklistReturn
    \/ UnblacklistCall
    \/ UnblacklistUpdate
    \/ UnblacklistReturn
    \/ CacheServiceFlushdb
    \/ Tick

SpecBlacklist == InitGuard /\ [][NextBlacklist]_vars

(***************************************************************************)
(* Start of the application: ConfigService.loadConfig reads NODE_ENV,      *)
(* CACHE_TYPE ("" when unset) and CACHE_KEY_PREFIX, and the CacheService   *)
(* constructor creates the client for config.cache.type.  A new memory     *)
(* cache is empty, and no call is under way on the service that the new    *)
(* one replaces.                                                           *)
(***************************************************************************)
EnvironmentDEVELOPMENT == "development"
EnvironmentSTAGING == "staging"
EnvironmentPRODUCTION == "production"
NodeEnvInputs == {"", EnvironmentDEVELOPMENT, EnvironmentSTAGING, EnvironmentPRODUCTION}
CacheTypeEnvInputs == {"", "bogus"} \cup CacheTypes

\* loadConfig: the environment defaults to production; production and
\* staging require DB_HOST, DB_PASSWORD, VAULT_URL, VAULT_TOKEN, JWT_SECRET.
\* cache.keyPrefix is CACHE_KEY_PREFIX as it stands.
LoadConfig(nodeEnv, cacheTypeEnv, keyPrefixEnv, requiredVarsSet) ==
    LET environment == IF nodeEnv # "" THEN nodeEnv ELSE EnvironmentPRODUCTION
        type == IF cacheTypeEnv # "" THEN cacheTypeEnv ELSE CacheTypeVALKEY
    IN  IF environment \in {EnvironmentPRODUCTION, EnvironmentSTAGING} /\ ~requiredVarsSet
        THEN Err(<<environment, "environment requires explicit environment variables">>)
        ELSE Ok([environment |-> environment, type |-> type, keyPrefix |-> keyPrefixEnv])

\* initializeCache: the client for the configured type, ValKey for any other.
InitializeCache(type) == IF type \in CacheTypes THEN type ELSE CacheTypeVALKEY

ConfigureCache ==
    \E nodeEnv \in NodeEnvInputs, cacheTypeEnv \in CacheTypeEnvInputs,
       keyPrefixEnv \in BOOLEAN, requiredVarsSet \in BOOLEAN :
        LET config == LoadConfig(nodeEnv, cacheTypeEnv, keyPrefixEnv, requiredVarsSet)
            client == InitializeCache(config.val.type)
        IN  /\ RateInFlight = {}
            /\ hc.pc = "idle"
            /\ IF config.ok
               THEN /\ cacheType' = client
                    /\ keyPrefix' = config.val.keyPrefix
                    /\ cache' = << >>
                    /\ result' = Result("initializeCache", "", nodeEnv,
                                        Ok([environment |-> config.val.environment,
                                            type |-> config.val.type, client |-> client,
                                            keyPrefix |-> config.val.keyPrefix]))
                    /\ UNCHANGED <<engineVars, db, clock, rateLog, rl, chk, bl, un, hc>>
               ELSE /\ result' = Result("initializeCache", "", nodeEnv, config)
                    /\ UNCHANGED <<engineVars, guardVars>>

NextCacheConfig ==
    \/ ConfigureCache
    \/ CacheServiceSet
    \/ CacheServiceExists
    \/ CacheServiceFlushdb
    \/ HealthCheckCall
    \/ HealthCheckGet
    \/ HealthCheckReturn
    \/ Tick

SpecCacheConfig == InitGuard /\ [][NextCacheConfig]_vars

(***************************************************************************)
(* Properties.  A call returns at the step that sets result; what the call *)
(* saw when it was made is in its entry of rot or enc.                     *)
(***************************************************************************)
NoActiveKeyError == <<"Key rotation failed", "No active key found for rotation">>

\* The rotateKeys call c returns or throws at this step.
RotateReturns(c) == c \in InFlight /\ c \notin InFlight'

\* The encryptAndStoreSecret or encryptFile call c returns or throws at this step.
EncReturns(c) == c \in EncInFlight /\ c \notin EncInFlight'

\* C1: after any sequence of operations run one at a time, every tenant has
\* at most one key with status ACTIVE.
C1_AtMostOneActiveKey ==
    \A t \in TenantInputs : Cardinality(ActiveKeys(t)) <= 1

\* C2: when rotateKeys calls for one tenant have overlapped and all have
\* ended, the tenant has at most one ACTIVE key and no two of the calls
\* archived the same old key.
C2_RotationSerialized ==
    \A c1, c2 \in RotateCalls :
        ( /\ c1 # c2
          /\ rot[c1].pc = "done" /\ rot[c2].pc = "done"
          /\ rot[c1].overlapped /\ rot[c2].overlapped
          /\ rot[c1].tenantId = rot[c2].tenantId
          /\ rot[c1].res.ok /\ rot[c2].res.ok )
        => /\ Cardinality(ActiveKeys(rot[c1].tenantId)) <= 1
           /\ \/ rot[c1].res.ret.oldKeyId # rot[c2].res.ret.oldKeyId
              \/ rot[c1].res.ret.oldKeyId = NoId

\* C3: a rotateKeys call that fails leaves a tenant that had an ACTIVE key
\* with at least one ACTIVE key.
C3_FailedRotationKeepsActiveKey ==
    [][ \A c \in RotateCalls, t \in TenantInputs :
            (RotateReturns(c) /\ rot[c].tenantId = t /\ ~result'.ok /\ rot[c].activeIds # {})
            => (ActiveKeys(t))' # {} ]_vars

\* A tenant with an ACTIVE key whose rotation failed at the creation of the new key.
C3_Witness ==
    /\ result.op = "rotateKeys"
    /\ ~result.ok
    /\ result.err = <<"Key rotation failed", "Vault key creation failed", "Vault provider not ready">>
    /\ ActiveKeys(result.tenantId) # {}

\* C4: with the provider ready, decryptSecret(T, id) of a record that
\* encryptAndStoreSecret(T, name, v) wrote, whose key was not evicted,
\* returns v, whatever rotations came in between.
C4_DecryptReturnsStoredValue ==
    (result.op = "decryptSecret" /\ IsReady)
    => \A w \in vaultWritten :
           ( /\ w.data.kind = "enc"
             /\ w.tenantId = result.tenantId
             /\ w.data.metadata.id = result.arg
             /\ w.data.encryptedData.keyId \notin deletedKeyIds )
           => (result.ok /\ result.ret = w.value)

SupersededKeys(t) == {c \in KeysOf(t) : \E d \in KeysOf(t) : d.seq > c.seq}

C6_RotationEvictsOldest ==
    \A t \in TenantInputs :
        LET superseded == SupersededKeys(t)
            recent == {c \in superseded :
                          Cardinality({d \in superseded : d.seq > c.seq}) < MAX_ARCHIVED_KEYS}
            oldest == superseded \ recent
        IN  ( /\ result.op = "rotateKeys"
              /\ result.ok
              /\ result.tenantId = t
              /\ IsReady
              /\ Cardinality(superseded) > MAX_ARCHIVED_KEYS )
            => /\ deletedKeyIds \cap KeyIdsOf(t) = {c.key.id : c \in oldest}
               /\ \A c \in recent : c.key.id \notin deletedKeyIds

\* C7: a rotateKeys that succeeds, no other call overlapping it, on a tenant
\* whose ACTIVE key was K1 when the call was made returns oldKeyId = K1 and a
\* new newKeyId; when it returns, with the provider ready, listKeys reports
\* activeKeyId = newKeyId and K1 is ARCHIVED with archivedAt set.
C7_RotationReturnsOldAndNew ==
    [][ \A c \in RotateCalls, t \in TenantInputs : \A K1 \in rot[c].activeIds :
            (RotateReturns(c) /\ rot[c].tenantId = t /\ result'.ok /\ ~rot[c].overlapped
               /\ ValidTenant(t) /\ rot[c].activeIds = {K1})
            => /\ result'.ret.oldKeyId = K1
               /\ result'.ret.newKeyId \notin {K1, NoId}
               /\ IsReady' => (ListKeysOutcome(t))'.val.activeKeyId = result'.ret.newKeyId
               /\ \E k \in createdKeys' :
                      /\ k.key.id = K1
                      /\ k.key.status = KeyStatusARCHIVED
                      /\ k.key.archivedAt # NoDate ]_vars

\* C8 as stated: on a tenant with no ACTIVE key, rotateKeys without force
\* fails with the no-active-key error and creates no key, and rotateKeys with
\* force succeeds with a new newKeyId, an empty oldKeyId and an ACTIVE key
\* for the tenant.
C8_ForcedRotationAlwaysSucceeds ==
    [][ \A c \in RotateCalls, t \in TenantInputs :
            (RotateReturns(c) /\ rot[c].tenantId = t /\ rot[c].activeIds = {})
            => IF ~rot[c].force
               THEN /\ ~result'.ok
                    /\ result'.err = NoActiveKeyError
                    /\ createdKeys' = createdKeys
               ELSE /\ result'.ok
                    /\ result'.ret.newKeyId # NoId
                    /\ result'.ret.oldKeyId = NoId
                    /\ (ActiveKeys(t))' # {} ]_vars

\* C8, amended: the same, the forced rotation succeeding whenever the
\* provider is ready when the call comes to create the new key; the call
\* that has created it returns it.
C8_ForcedRotationSucceedsWhenReady ==
    [][ \A c \in RotateCalls, t \in TenantInputs :
            /\ (RotateReturns(c) /\ rot[c].activeIds = {} /\ ~rot[c].force)
               => /\ ~result'.ok
                  /\ result'.err = NoActiveKeyError
                  /\ createdKeys' = createdKeys
            /\ (rot[c].pc = "create" /\ rot'[c].pc # "create" /\ rot[c].activeIds = {}
                  /\ rot[c].force /\ IsReady)
               => /\ rot'[c].pc = "archive"
                  /\ \E k \in createdKeys' \ createdKeys : k.tenantId = rot[c].tenantId
            /\ (rot[c].pc = "archive" /\ RotateReturns(c) /\ rot[c].tenantId = t
                  /\ rot[c].activeIds = {} /\ rot[c].force)
               => /\ result'.ok
                  /\ result'.ret.newKeyId # NoId
                  /\ result'.ret.oldKeyId = NoId
                  /\ (ActiveKeys(t))' # {} ]_vars

\* A forced rotation that gave a tenant its first key.
C8_Witness ==
    /\ result.op = "rotateKeys"
    /\ result.arg = "force"
    /\ result.ok
    /\ result.ret.oldKeyId = NoId
    /\ KeyIdsOf(result.tenantId) = {result.ret.newKeyId}
    /\ ActiveKeys(result.tenantId) # {}

\* C9: every record written for a tenant lives at
\* secret/data/tenants/{tenantId}/secrets/{secretId}, and getSecret,
\* decryptSecret and listSecrets called for a tenant return nothing of a
\* record written for another tenant, also when given that record's id.
C9_TenantIsolation ==
    /\ \A w \in vaultWritten :
           w.path = <<"secret", "data", "tenants", w.tenantId, "secrets", w.data.metadata.id>>
    /\ \A w \in vaultWritten :
           ( /\ result.op \in {"getSecret", "decryptSecret"}
             /\ result.arg = w.data.metadata.id
             /\ result.tenantId # w.tenantId )
           => ~result.ok
    /\ (result.op = "listSecrets" /\ result.ok)
       => \A i \in 1..Len(result.ret.secrets) :
              \E w \in vaultWritten :
                  /\ w.tenantId = result.tenantId
                  /\ w.data.metadata.id = result.ret.secrets[i].id

\* Tenant B asks, with the provider ready, for the id of a record written for tenant A.
C9_Witness ==
    /\ result.op = "getSecret"
    /\ IsReady
    /\ ValidTenant(result.tenantId)
    /\ \E w \in vaultWritten :
           result.arg = w.data.metadata.id /\ result.tenantId # w.tenantId

\* The step is one of a rotateKeys, encryptAndStoreSecret or encryptFile call
\* made for the tenant.
StepOfCallFor(t) ==
    \/ \E c \in InFlight : rot[c].tenantId = t /\ rot'[c] # rot[c]
    \/ \E c \in EncInFlight : enc[c].tenantId = t /\ enc'[c] # enc[c]

\* C10: the key an encryption for tenant B uses, the keys listKeys(B) reports
\* and the keys rotateKeys(B) names are keys created for B, and the keys of
\* a tenant A are created and deleted by no step but those of a call made
\* for A.
C10_KeysNamespacedByTenant ==
    [][ /\ \A B \in TenantInputs \cup {""} :
            result'.tenantId = B
            => LET ret == result'.ret
                   mine == (KeyIdsOf(B))'
               IN  /\ (result'.op \in {"encryptAndStoreSecret", "encryptFile"} /\ result'.ok)
                      => ret.keyId \in mine
                   /\ (result'.op = "listKeys" /\ result'.ok)
                      => /\ \A i \in 1..Len(ret.keys) : ret.keys[i].keyId \in mine
                         /\ ret.activeKeyId \in mine \cup {NoId}
                   /\ (result'.op = "rotateKeys" /\ result'.ok)
                      => /\ ret.newKeyId \in mine
                         /\ ret.oldKeyId \in mine \cup {NoId}
                         /\ \A i \in 1..Len(ret.archivedKeys) :
                                ret.archivedKeys[i].keyId \in mine
        /\ \A A \in TenantInputs :
               \/ StepOfCallFor(A)
               \/ /\ (KeysOf(A))' = KeysOf(A)
                  /\ (deletedKeyIds' \ deletedKeyIds) \cap KeyIdsOf(A) = {} ]_vars

\* Tenant B encrypts while tenant A has an ACTIVE key, and gets a key of its own.
C10_Witness ==
    /\ result.op = "encryptFile"
    /\ result.ok
    /\ result.ret.keyId \in KeyIdsOf(result.tenantId)
    /\ \E A \in TenantInputs \ {result.tenantId} :
           \E c \in ActiveKeys(A) : \A d \in KeysOf(result.tenantId) : c.seq < d.seq

\* The operations that reach ensureActiveKey.
EncryptionOps == {"encryptAndStoreSecret", "encryptFile"}

\* C11: an encryption that no other call overlaps creates a key only for a
\* tenant without an ACTIVE key, and of two consecutive successful
\* encryptions for one tenant, the second made right after the first has
\* returned, the second creates no key and uses the key id the first used.
C11_EnsureActiveKeyIdempotent ==
    [][ \A c \in EncCalls :
            LET call == enc[c]
            IN  (EncReturns(c) /\ result'.ok /\ ~call.overlapped)
                => /\ call.created => call.activeIds = {}
                   /\ call.before.op = "encrypt"
                      => /\ ~call.created
                         /\ result'.ret.keyId = call.before.keyId ]_vars

(***************************************************************************)
(* The provider's encrypt followed by its decrypt, on every string of up   *)
(* to MaxLen tokens and every key createKey has produced.  decrypt is      *)
(* called when encrypt has answered.                                       *)
(***************************************************************************)
MaxLen == 3

Strings(n) == UNION {[1..k -> {Marker, "x"}] : k \in 0..n}

RoundTripEncrypt ==
    \E x \in Strings(MaxLen), c \in createdKeys :
        LET encrypted == ProviderEncrypt(x, c.key.id)
        IN  /\ rt.pc = "idle"
            /\ rt' = IF encrypted.ok
                     THEN [pc |-> "decrypt", data |-> x, tenantId |-> c.tenantId,
                           keyId |-> c.key.id, encrypted |-> encrypted.val]
                     ELSE IdleRoundTrip
            /\ result' = IF encrypted.ok THEN NoResult
                         ELSE Result("roundTrip", c.tenantId, c.key.id, encrypted)
            /\ UNCHANGED <<providerVars, backendVars, rot, enc, guardVars>>

RoundTripDecrypt ==
    LET decrypted == ProviderDecrypt(rt.encrypted)
    IN  /\ rt.pc = "decrypt"
        /\ rt' = IdleRoundTrip
        /\ result' = Result("roundTrip", rt.tenantId, rt.keyId,
                            IF decrypted.ok
                            THEN Ok([data |-> rt.data,
                                     ciphertext |-> rt.encrypted.ciphertext,
                                     plaintext |-> decrypted.val])
                            ELSE decrypted)
        /\ UNCHANGED <<providerVars, backendVars, rot, enc, guardVars>>

NextRoundTrip ==
    \/ InitializeCall
    \/ InitializeConnect
    \/ InitializeFinish
    \/ Dispose
    \/ rt.pc # "decrypt" /\ ~Overlapping /\ EncryptFileCall(1)
    \/ EncCreate(1)
    \/ EncEncrypt(1)
    \/ ~Overlapping /\ RoundTripEncrypt
    \/ RoundTripDecrypt

SpecRoundTrip == Init /\ [][NextRoundTrip]_vars

\* C12: decrypt(encrypt(x, keyId)) returns x for every string x, the empty
\* one and those holding the ciphertext marker included, and every key id
\* createKey produced: with the provider ready when it answers, the round
\* trip has succeeded, and one that succeeds gives back x.
C12_DecryptInvertsEncrypt ==
    result.op = "roundTrip"
    => /\ IsReady => result.ok
       /\ result.ok => /\ result.ret.ciphertext = <<Marker>> \o result.ret.data
                       /\ result.ret.plaintext = result.ret.data

\* A string that starts and ends with the marker made the round trip.
C12_Witness ==
    /\ result.op = "roundTrip"
    /\ result.ok
    /\ result.ret.data = <<Marker, "x", Marker>>
    /\ result.ret.plaintext = <<Marker, "x", Marker>>

\* C13: with the provider ready, getSecret(T, id).value and
\* decryptSecret(T, id) equal the value v that storeSecret(T, name, v)
\* stored under id.
C13_StoreSecretVerbatim ==
    (result.op \in {"getSecret", "decryptSecret"} /\ IsReady)
    => \A w \in vaultWritten :
           ( /\ w.data.kind = "plain"
             /\ w.tenantId = result.tenantId
             /\ w.data.metadata.id = result.arg )
           => /\ result.ok
              /\ IF result.op = "getSecret"
                 THEN result.ret.value = w.value
                 ELSE result.ret = w.value

(***************************************************************************)
(* Every public operation that takes a tenant id, on well-formed and       *)
(* ill-formed tenant ids.                                                  *)
(***************************************************************************)
\* No call of the service and no initialize() is in flight.
Quiet == ini = "idle" /\ ~Overlapping

NextTenants ==
    \/ Quiet /\ InitializeCall
    \/ InitializeConnect
    \/ InitializeFinish
    \/ Quiet /\ StoreSecret
    \/ Quiet /\ EncryptAndStoreSecretCall(1)
    \/ Quiet /\ EncryptFileCall(1)
    \/ EncCreate(1)
    \/ EncEncrypt(1)
    \/ EncStore(1)
    \/ Quiet /\ GetSecret
    \/ Quiet /\ DecryptSecret
    \/ Quiet /\ DeleteSecret
    \/ Quiet /\ ListSecrets
    \/ Quiet /\ ListKeys
    \/ Quiet /\ RotateCall(1)
    \/ RotateCreate(1)
    \/ RotateArchive(1)

SpecTenants == Init /\ [][NextTenants]_vars

TenantOps ==
    {"storeSecret", "encryptAndStoreSecret", "encryptFile", "getSecret", "decryptSecret",
     "deleteSecret", "listSecrets", "listKeys", "rotateKeys"}

\* C14: every operation that takes a tenant id rejects an ill-formed one
\* with the invalid-UUID error, and draws no id, writes and deletes no
\* secret, creates and deletes no key.
C14_InvalidTenantRejected ==
    [][ \A t \in TenantInputs :
            (result'.op \in TenantOps /\ result'.tenantId = t /\ ~ValidTenant(t))
            => /\ ~result'.ok
               /\ \E i \in 1..Len(result'.err) : result'.err[i] = "Invalid UUID v7 format"
               /\ UNCHANGED <<uuidCount, vaultWritten, vaultDeleted, createdKeys,
                              deletedKeyIds>> ]_vars

(***************************************************************************)
(* C15: for every IP, isIpBlacklisted(ip) returns true immediately after a *)
(* successful blacklistIp(ip, d) with d > 0, and returns false after a     *)
(* subsequent successful unblacklistIp(ip), however many blacklistIp calls *)
(* preceded it.  The blacklistIp and the unblacklistIp are calls that no   *)
(* other call of the guard overlapped; the answer is the one that an       *)
(* isIpBlacklisted made when the call returns gives if nothing runs        *)
(* between its steps, whether or not its database query works.             *)
(***************************************************************************)
AnswerNow(ip, dbUp) == IsIpBlacklistedOutcome(cache, db, ip, dbUp).res.val.blacklisted

C15_BlacklistedUntilUnblacklisted ==
    [][\A ip \in IpInputs, dbUp \in BOOLEAN :
        /\ (bl.pc = "return" /\ bl'.pc = "idle" /\ bl.ip = ip /\ result'.ok /\ ~bl.overlapped
               /\ Now < bl.blockedUntil)
           => AnswerNow(ip, dbUp)'
        /\ (un.pc = "return" /\ un'.pc = "idle" /\ un.ip = ip /\ result'.ok /\ ~un.overlapped)
           => ~AnswerNow(ip, dbUp)'
      ]_vars

\* A successful unblacklistIp of an IP that two blacklistIp calls had blocked.
C15_Witness ==
    /\ result.op = "unblacklistIp"
    /\ result.ok
    /\ chk.pc = "idle"
    /\ bl.pc = "idle"
    /\ Len(SelectSeq(db, LAMBDA r : r.ip_address = result.arg /\ r.unblocked_at # NoDate)) = 2
    /\ \A dbUp \in BOOLEAN : ~AnswerNow(result.arg, dbUp)

(***************************************************************************)
(* C16: isIpBlacklisted fails open: whenever any cache operation (get,     *)
(* del, setex) or the durable-store query fails during the call, it        *)
(* returns false, and it never throws.                                     *)
(***************************************************************************)
C16_FailsOpenOnAnyFailure ==
    result.op = "isIpBlacklisted" =>
        /\ result.ok
        /\ (result.ret.getFailed \/ result.ret.threw) => ~result.ret.blacklisted

\* The code: isIpBlacklisted never throws, and returns false
\* whenever del, setex or the durable-store query throws during the call; a
\* get that fails inside the cache service reads as a miss, and the answer
\* then comes from the durable store.
FailsOpenOnThrow ==
    [][(chk.pc # "idle" /\ chk'.pc = "idle") =>
        /\ result'.op = "isIpBlacklisted"
        /\ result'.ok
        /\ result'.ret.threw => ~result'.ret.blacklisted
        /\ (result'.ret.getFailed /\ ~result'.ret.threw) =>
               (result'.ret.blacklisted <=> chk.row # NoRow)
      ]_vars

(***************************************************************************)
(* C17: within one window, the k-th checkRateLimit(ip, maxRequests,        *)
(* windowSeconds) call for an IP returns allowed = (k <= maxRequests) and  *)
(* remaining = max(0, maxRequests - k).  The calls looked at are those of  *)
(* the first window of the IP: less than windowSeconds after its first     *)
(* call.                                                                   *)
(***************************************************************************)
CallsOf(ip, i) == {j \in 1..i : rateLog[j].ip = ip}

FirstCallOf(ip) == CHOOSE j \in CallsOf(ip, Len(rateLog)) : \A h \in CallsOf(ip, Len(rateLog)) : j <= h

InFirstWindow(i) ==
    LET first == rateLog[FirstCallOf(rateLog[i].ip)]
    IN  rateLog[i].time - first.time < first.windowSeconds * 1000

C17_KthCallCounted ==
    \A i \in 1..Len(rateLog) :
        LET call == rateLog[i]
            k == Cardinality(CallsOf(call.ip, i))
        IN  InFirstWindow(i) =>
                /\ call.allowed = (k <= call.maxRequests)
                /\ call.remaining = (IF call.maxRequests - k > 0 THEN call.maxRequests - k ELSE 0)

(***************************************************************************)
(* C18: the rate-limit window resets: once windowSeconds have elapsed      *)
(* since the first call of a window, the counter is gone and the next      *)
(* checkRateLimit call returns allowed = true with count 1, however many   *)
(* calls were made during the window.  The window looked at is the first   *)
(* one of the IP, the call the first one made after it has elapsed; a call *)
(* whose cache operation threw has no count.                               *)
(***************************************************************************)
AfterFirstWindow(i) ==
    LET first == rateLog[FirstCallOf(rateLog[i].ip)]
    IN  rateLog[i].time - first.time > first.windowSeconds * 1000

C18_WindowResets ==
    \A i \in 1..Len(rateLog) :
        LET call == rateLog[i]
        IN  (/\ AfterFirstWindow(i)
             /\ \A j \in CallsOf(call.ip, i - 1) : ~AfterFirstWindow(j)) =>
                /\ call.allowed
                /\ ~call.failed => call.current = 1

(***************************************************************************)
(* C19: the rate-limit counter increment is atomic: when n checkRateLimit  *)
(* calls for the same IP overlap inside one window, they observe the n     *)
(* distinct counts 1..n (no lost update), so at most maxRequests of them   *)
(* return allowed = true.  The calls looked at are those that counted, in  *)
(* the first window of the IP, once no call is under way.                  *)
(***************************************************************************)
Counted(ip) ==
    {i \in 1..Len(rateLog) : rateLog[i].ip = ip /\ ~rateLog[i].failed /\ InFirstWindow(i)}

C19_IncrementAtomic ==
    \A ip \in IpInputs :
        RateInFlight = {} =>
        /\ {rateLog[i].current : i \in Counted(ip)} = 1..Cardinality(Counted(ip))
        /\ \A maxRequests \in MaxRequestsInputs :
               (\A i \in Counted(ip) : rateLog[i].maxRequests = maxRequests) =>
                   Cardinality({i \in Counted(ip) : rateLog[i].allowed}) <= maxRequests

(***************************************************************************)
(* C20: checkRateLimit fails open: whenever a cache operation (incr or     *)
(* expire) throws during the call, it returns allowed = true with          *)
(* remaining = maxRequests, and it never throws.                           *)
(***************************************************************************)
C20_RateLimitFailsOpen ==
    /\ \A i \in 1..Len(rateLog) :
           rateLog[i].failed =>
               /\ rateLog[i].allowed
               /\ rateLog[i].remaining = rateLog[i].maxRequests
    /\ result.op = "checkRateLimit" => result.ok

\* A second call for an IP with maxRequests = 1 whose incr threw: allowed.
C20_Witness ==
    \E i \in 2..Len(rateLog) :
        /\ rateLog[i].failed
        /\ rateLog[i].maxRequests = 1
        /\ rateLog[i - 1].ip = rateLog[i].ip
        /\ rateLog[i].allowed
        /\ result.op = "checkRateLimit"
        /\ result.ok

(***************************************************************************)
(* C21: in every reachable state, including after a blacklistIp whose      *)
(* durable write failed, a cache entry blacklist:{ip} exists only if the   *)
(* durable store holds a (possibly stale) blacklist row for that ip.       *)
(***************************************************************************)
HasCacheEntry(ip) == GetFullKey(BlacklistKey(ip)) \in DOMAIN cache

HasRow(ip) == \E i \in 1..Len(db) : db[i].ip_address = ip

\* C21, in the states where no blacklistIp is between its setex and the
\* answer of its create: a cache entry for an ip exists only if the table
\* holds a row for the ip.
C21_CacheEntryImpliesRow ==
    bl.pc = "idle" => \A ip \in IpInputs : HasCacheEntry(ip) => HasRow(ip)

(***************************************************************************)
(* C22: the durable store is authoritative on a cache miss: if the cache   *)
(* holds no entry for ip and the durable store holds a row for ip with     *)
(* blocked_until > now and unblocked_at null, isIpBlacklisted(ip) returns  *)
(* true and re-creates the cache entry with TTL equal to the remaining     *)
(* block time.  The call is the one made in the state at hand, with the    *)
(* query working; the TTL is in whole seconds.                             *)
(***************************************************************************)
C22_StoreAuthoritativeOnMiss ==
    \A ip \in IpInputs :
        LET row == DbFindFirst(db, ip)
            out == IsIpBlacklistedOutcome(cache, db, ip, TRUE)
            fullKey == GetFullKey(BlacklistKey(ip))
        IN  (~HasCacheEntry(ip) /\ row # NoRow) =>
                /\ out.res.val.blacklisted
                /\ fullKey \in DOMAIN out.cache
                /\ row.blocked_until - out.cache[fullKey].expiry \in 0..999

(***************************************************************************)
(* C23: blacklistIp writes the cache entry before the durable audit row;   *)
(* if the call stops between the two writes, isIpBlacklisted(ip) returns   *)
(* true until the cache TTL expires and, with no durable row present,      *)
(* returns false from then on, so the inconsistency window is bounded by   *)
(* the blacklist TTL.  The state such a call leaves is a cache entry for   *)
(* the ip without any row for it.                                          *)
(***************************************************************************)
MaxTtl == 60 * 1000

C23_OrphanEntryBoundedByTtl ==
    \A ip \in IpInputs, dbUp \in BOOLEAN :
        LET fullKey == GetFullKey(BlacklistKey(ip))
            out == IsIpBlacklistedOutcome(cache, db, ip, dbUp)
        IN  (HasCacheEntry(ip) /\ ~HasRow(ip)) =>
                /\ cache[fullKey].expiry # NoExpiry
                /\ cache[fullKey].expiry <= Now + MaxTtl
                /\ out.res.val.blacklisted <=> Now < cache[fullKey].expiry
                /\ Now >= cache[fullKey].expiry => fullKey \notin DOMAIN out.cache

\* isIpBlacklisted answered true for an IP that has a cache entry and no row.
C23_Witness ==
    /\ result.op = "isIpBlacklisted"
    /\ result.ret.blacklisted
    /\ HasCacheEntry(result.arg)
    /\ ~HasRow(result.arg)

(***************************************************************************)
(* C24: no Abuse Guard operation (isIpBlacklisted, blacklistIp,            *)
(* unblacklistIp, checkRateLimit) surfaces a cache or durable-store        *)
(* failure to its caller as an error.                                      *)
(***************************************************************************)
GuardOps == {"isIpBlacklisted", "blacklistIp", "unblacklistIp", "checkRateLimit"}

C24_GuardNeverThrows == result.op \in GuardOps => result.ok

(***************************************************************************)
(* C25: createProvider fails immediately with an error, and constructs no  *)
(* provider, whenever the configured provider-type selector is not a       *)
(* supported type; it never silently falls back to a default provider.     *)
(***************************************************************************)
C25_UnsupportedTypeRejected ==
    (result.op = "createProvider" /\ result.arg \notin SecretsProviderTypes \cup {""}) =>
        /\ ~result.ok
        /\ ~result.ret.constructed

(***************************************************************************)
(* C26: every provider that createProvider returns has had initialize()    *)
(* completed successfully and satisfies isReady() at the time it is        *)
(* returned; if initialize() fails (no token configured) createProvider    *)
(* throws and returns no provider.                                         *)
(***************************************************************************)
C26_ReturnedProviderReady ==
    [][(result'.op = "createProvider" /\ CreateProvider) =>
        /\ result'.ok => (result'.ret.ready /\ IsReady' /\ configToken)
        /\ (result'.ret.constructed /\ ~configToken) => ~result'.ok
      ]_vars

\* createProvider returned a Vault provider that is ready.
C26_Witness ==
    /\ result.op = "createProvider"
    /\ result.ok
    /\ result.ret.type = "vault"
    /\ IsReady

(***************************************************************************)
(* C27: in a production configuration (environment = production, which is *)
(* also the default when NODE_ENV is unset) CacheService never selects the *)
(* single-process MemoryCacheService as its backend, whatever cache type   *)
(* is configured.                                                          *)
(***************************************************************************)
C27_NoMemoryCacheInProduction ==
    (/\ result.op = "initializeCache"
     /\ result.ok
     /\ result.ret.environment = EnvironmentPRODUCTION) => result.ret.client # CacheTypeMEMORY

(***************************************************************************)
(* C28: listSecrets(tenantId) returns metadata only: for every stored      *)
(* secret, plaintext or encrypted, no entry of the result contains the     *)
(* secret's value, ciphertext, iv or key id, so two stores that differ     *)
(* only in secret values yield the same listSecrets result.  The result    *)
(* is the same for every store: it is fixed by the tenant id alone.        *)
(***************************************************************************)
SecretMaterial == {"value", "encryptedData", "ciphertext", "iv", "keyId"}

C28_ListSecretsMetadataOnly ==
    (result.op = "listSecrets" /\ result.ok) =>
        /\ \A i \in 1..Len(result.ret.secrets) :
               DOMAIN result.ret.secrets[i] \cap SecretMaterial = {}
        /\ result.ret = [tenantId |-> result.tenantId, secrets |-> << >>, totalCount |-> 0]

\* A listing for tenant tA, the provider ready, after tA has stored the
\* value "Ex" encrypted.
C28_Witness ==
    /\ result.op = "listSecrets"
    /\ result.ok
    /\ result.tenantId = "tA"
    /\ IsReady
    /\ \E w \in vaultWritten :
          w.tenantId = "tA" /\ w.value = <<"E", "x">> /\ w.data.kind = "enc"

(***************************************************************************)
(* Storing and deleting secrets: the operations that write and delete      *)
(* records and create keys, with up to MaxStoredSecrets records written.   *)
(***************************************************************************)
NextDelete ==
    \/ InitializeCall
    \/ InitializeConnect
    \/ InitializeFinish
    \/ ~Overlapping /\ StoreSecretUpTo(MaxStoredSecrets)
    \/ ~Overlapping /\ EncryptAndStoreSecretCallUpTo(1, MaxStoredSecrets)
    \/ EncCreate(1)
    \/ EncEncrypt(1)
    \/ EncStore(1)
    \/ ~Overlapping /\ DeleteSecret

SpecDelete == Init /\ [][NextDelete]_vars

\* The record of a secret: what was written for the tenant under the id.
IsRecordOf(w, tenantId, secretId) == w.tenantId = tenantId /\ w.data.metadata.id = secretId

\* C29: deleteSecret(T, id) removes only the record at T's path for id: it
\* deletes no other path than secret/data/tenants/T/secrets/id, and leaves
\* every encryption key, every other secret of T and every secret of the
\* other tenants unchanged.
C29_DeleteSecretRemovesOnlyItsRecord ==
    [][ \A t \in TenantInputs :
            (result'.op = "deleteSecret" /\ result'.tenantId = t)
            => /\ createdKeys' = createdKeys
               /\ deletedKeyIds' = deletedKeyIds
               /\ vaultWritten' = vaultWritten
               /\ (vaultDeleted' \ vaultDeleted)
                      \subseteq {<<"secret", "data", "tenants", t, "secrets", result'.arg>>}
               /\ \A w \in vaultWritten :
                      ~IsRecordOf(w, t, result'.arg)
                      => (w.path \in vaultDeleted' <=> w.path \in vaultDeleted)
      ]_vars

\* A successful deleteSecret while a key exists and another record, of the
\* same tenant or of another one, is stored and stays.
C29_Witness ==
    /\ result.op = "deleteSecret"
    /\ result.ok
    /\ SecretPath(result.tenantId, result.arg) \in vaultDeleted
    /\ createdKeys # {}
    /\ \E w \in vaultWritten :
          /\ ~IsRecordOf(w, result.tenantId, result.arg)
          /\ w.path \notin vaultDeleted

\* A successful deleteSecret of a record that was stored, while a key
\* exists, another record of the same tenant is stored and stays, and a
\* record of another tenant is stored and stays.
C29_WitnessSameTenant ==
    /\ C29_Witness
    /\ \E w \in vaultWritten :
          /\ IsRecordOf(w, result.tenantId, result.arg)
          /\ w.path = SecretPath(result.tenantId, result.arg)
    /\ \E w \in vaultWritten :
          /\ w.tenantId = result.tenantId
          /\ ~IsRecordOf(w, result.tenantId, result.arg)
          /\ w.path \notin vaultDeleted
    /\ \E w \in vaultWritten :
          /\ w.tenantId # result.tenantId
          /\ w.path \notin vaultDeleted

(***************************************************************************)
(* The operations that are handed a secret value or a file, with the       *)
(* provider ready, never initialized, or disposed.                         *)
(***************************************************************************)
NextStore ==
    \/ InitializeCall
    \/ InitializeConnect
    \/ InitializeFinish
    \/ Dispose
    \/ ~Overlapping /\ StoreSecret
    \/ ~Overlapping /\ EncryptAndStoreSecretCall(1)
    \/ ~Overlapping /\ EncryptFileCall(1)
    \/ EncCreate(1)
    \/ EncEncrypt(1)
    \/ EncStore(1)

SpecStore == Init /\ [][NextStore]_vars

SecretValueInputs == Values \cup Files \cup { << >>, <<"s", "e", "c", "r", "e", "t">> }

SameError(r1, r2) == r1.ok = r2.ok /\ r1.err = r2.err

\* The call, had it been made with the value v.
WithValue(call, v) ==
    [call EXCEPT !.value = v,
                 !.encrypted = IF call.encrypted = NoCipher THEN NoCipher
                               ELSE [call.encrypted EXCEPT !.ciphertext = <<Marker>> \o v]]

\* What the call gives at its next step.
EncNextOutcome(call) ==
    IF call.pc = "create" THEN EncCreateOutcome(call).res
    ELSE IF call.pc = "encrypt" THEN EncEncryptOutcome(call).res
    ELSE IF call.pc = "store" THEN EncStoreOutcome(call).res
    ELSE call.res

\* C30: no error carries plaintext or key material: in every state, two
\* calls of storeSecret that differ only in the secret value passed fail
\* alike, with the same error, and so does, at each of its steps, a call of
\* encryptAndStoreSecret or of encryptFile and the same call made with
\* another value.  Every value is compared with the one of the call, or
\* with the first one, so that any two agree.
C30_ErrorsIndependentOfValue ==
    LET v1 == <<"x">>
    IN  \A v2 \in SecretValueInputs \ {v1} :
            /\ \A t \in TenantInputs, name \in Names :
                  SameError(StoreSecretEffect(t, name, v1).res,
                            StoreSecretEffect(t, name, v2).res)
            /\ \A c \in EncCalls :
                  enc[c].pc # "idle"
                  => SameError(EncNextOutcome(enc[c]), EncNextOutcome(WithValue(enc[c], v2)))

\* A well-formed tenant's encryptAndStoreSecret has failed at setSecret, the
\* provider disposed after the value was encrypted, and in this state
\* storeSecret fails for the tenant as well.
C30_Witness ==
    /\ result.op = "encryptAndStoreSecret"
    /\ ~result.ok
    /\ result.err = <<"Vault set secret failed", "Vault provider not ready">>
    /\ ValidTenant(result.tenantId)
    /\ \A v \in SecretValueInputs, name \in Names :
          ~StoreSecretEffect(result.tenantId, name, v).res.ok

\* C31: encryptAndStoreSecret and encryptFile encrypt under the tenant's
\* ACTIVE key: the first successful encryption for T after rotateKeys(T)
\* returned newKeyId references newKeyId, and what is persisted carries the
\* key id that is returned.
C31_EncryptsUnderRotatedKey ==
    [][ \A c \in EncCalls :
            ( /\ EncReturns(c)
              /\ enc[c].before.op = "rotateKeys"
              /\ ~enc[c].overlapped
              /\ result'.ok )
            => /\ result'.ret.keyId = enc[c].before.keyId
               /\ \A w \in vaultWritten' \ vaultWritten :
                      w.data.encryptedData.keyId = result'.ret.keyId ]_vars

\* C32: MemoryCacheService.incr on a key that has an expiry increments the
\* value and leaves the remaining expiry unchanged, as INCR of the
\* distributed backend does.
C32_IncrKeepsExpiry ==
    \A ip \in IpInputs :
        LET key == RateLimitKey(ip)
            fullKey == GetFullKey(key)
        IN  ( /\ IsMemory
              /\ fullKey \in DOMAIN cache
              /\ cache[fullKey].expiry # NoExpiry
              /\ Now <= cache[fullKey].expiry )
            => LET after == MemoryIncr(cache, key)
               IN  /\ after.val = ParseInt(cache[fullKey].value) + 1
                   /\ fullKey \in DOMAIN after.cache
                   /\ after.cache[fullKey].value = NumberToString(after.val)
                   /\ after.cache[fullKey].expiry = cache[fullKey].expiry

\* C33: when two first-use calls (encryptAndStoreSecret or encryptFile) for
\* a tenant that had no key have overlapped and both have returned, exactly
\* one key was created for the tenant, both encrypted under it, and the
\* tenant has one ACTIVE key.
C33_FirstUseCreatesOneKey ==
    \A c1, c2 \in EncCalls :
        ( /\ c1 # c2
          /\ enc[c1].pc = "done" /\ enc[c2].pc = "done"
          /\ enc[c1].overlapped /\ enc[c2].overlapped
          /\ enc[c1].tenantId = enc[c2].tenantId
          /\ enc[c1].res.ok /\ enc[c2].res.ok )
        => /\ Cardinality(KeysOf(enc[c1].tenantId)) = 1
           /\ enc[c1].res.ret.keyId = enc[c2].res.ret.keyId
           /\ Cardinality(ActiveKeys(enc[c1].tenantId)) = 1

\* Every block of the IP in the table has been lifted by unblacklistIp.
Unblocked(ip) ==
    /\ \E i \in 1..Len(db) : db[i].ip_address = ip
    /\ \A i \in 1..Len(db) : db[i].ip_address = ip => db[i].unblocked_at # NoDate

\* C34: once unblacklistIp(ip) has returned successfully, and no blacklistIp
\* follows, an isIpBlacklisted(ip) that starts when no check is in flight
\* returns false, also when a check was in flight during the unblacklistIp.
C34_UnblockedStaysUnblocked ==
    \A ip \in IpInputs, dbUp \in BOOLEAN :
        (Unblocked(ip) /\ chk.pc = "idle" /\ un.pc = "idle") => ~AnswerNow(ip, dbUp)

(***************************************************************************)
(* C35: a block expires by itself: isIpBlacklisted(ip) returns true only   *)
(* while some block of ip is unexpired (now < blockedUntil) and not        *)
(* unblocked, so once every block has passed its blockedUntil it returns   *)
(* false without any unblacklistIp, and a cache entry found expired is     *)
(* removed from the cache.  The blocks of an IP are the rows of the table  *)
(* for it, a block that is not unblocked is a row without unblocked_at;    *)
(* the call is one made in the state at hand, no call being in flight.     *)
(***************************************************************************)
OpenBlockEnds(ip) ==
    {db[i].blocked_until : i \in {j \in 1..Len(db) : /\ db[j].ip_address = ip
                                                      /\ db[j].unblocked_at = NoDate}}

C35_TrueOnlyWhileBlocked ==
    \A ip \in IpInputs, dbUp \in BOOLEAN :
        LET out == IsIpBlacklistedOutcome(cache, db, ip, dbUp)
            fullKey == GetFullKey(BlacklistKey(ip))
        IN  (chk.pc = "idle" /\ un.pc = "idle" /\ bl.pc = "idle")
            => /\ out.res.val.blacklisted
                      => \E blockedUntil \in OpenBlockEnds(ip) : Now < blockedUntil
               /\ fullKey \in DOMAIN out.cache => ParseInt(out.cache[fullKey].value) > Now

\* The expiry alone, whoever wrote the cache entry: the answer is true only
\* while an open row or the cache entry of the IP has not passed its
\* blockedUntil, and the call leaves no expired entry in the cache.
BlockEnds(ip) ==
    OpenBlockEnds(ip)
    \cup (IF HasCacheEntry(ip) THEN {ParseInt(cache[GetFullKey(BlacklistKey(ip))].value)} ELSE {})

AnswerEndsWithBlockedUntil ==
    \A ip \in IpInputs, dbUp \in BOOLEAN :
        LET out == IsIpBlacklistedOutcome(cache, db, ip, dbUp)
            fullKey == GetFullKey(BlacklistKey(ip))
        IN  /\ out.res.val.blacklisted => \E blockedUntil \in BlockEnds(ip) : Now < blockedUntil
            /\ fullKey \in DOMAIN out.cache => ParseInt(out.cache[fullKey].value) > Now

\* C36: no rate-limit counter outlives its window: after every
\* checkRateLimit call a counter that exists in the cache has an expiry, at
\* most windowSeconds ahead.
C36_CounterExpiresWithWindow ==
    \A key \in DOMAIN cache :
        (result.op = "checkRateLimit" /\ key[Len(key) - 1] = "ratelimit")
        => /\ cache[key].expiry # NoExpiry
           /\ \E windowSeconds \in WindowInputs :
                  cache[key].expiry <= Now + windowSeconds * 1000

(***************************************************************************)
(* Reading secrets back: secrets are stored and deleted, the provider is   *)
(* initialized and disposed, and getSecret and decryptSecret are asked for *)
(* stored, deleted and never stored ids.                                   *)
(***************************************************************************)
NextReadBack ==
    \/ InitializeCall
    \/ InitializeConnect
    \/ InitializeFinish
    \/ Dispose
    \/ StoreSecret
    \/ DeleteSecret
    \/ GetSecret
    \/ DecryptSecret

SpecReadBack == Init /\ [][NextReadBack]_vars

\* The last call read, for a well-formed tenant, an id that deleteSecret has
\* deleted for the tenant or that was never stored for it.
ReadOfAbsentSecret ==
    /\ result.op \in {"getSecret", "decryptSecret"}
    /\ ValidTenant(result.tenantId)
    /\ \/ SecretPath(result.tenantId, result.arg) \in vaultDeleted
       \/ \A w \in vaultWritten : ~IsRecordOf(w, result.tenantId, result.arg)

\* C37 as stated: after deleteSecret(T, id) has returned successfully,
\* getSecret(T, id) and decryptSecret(T, id) fail with a secret-not-found
\* error and return no value; the same for an id never stored for T.
C37_AbsentSecretNotFound ==
    ReadOfAbsentSecret =>
        /\ ~result.ok
        /\ result.ret = << >>
        /\ "Secret not found" \in Range(result.err)

\* C37 as the code has it: such a read fails and returns no value; the error
\* is secret-not-found while the provider is ready, and the provider's
\* not-ready error otherwise.
C37_AbsentSecretFails ==
    ReadOfAbsentSecret =>
        /\ ~result.ok
        /\ result.ret = << >>
        /\ IsReady => "Secret not found" \in Range(result.err)
        /\ ~IsReady => "Vault provider not ready" \in Range(result.err)

\* decryptSecret for tenant tA, the provider ready, of a secret tA stored
\* and then deleted.
C37_Witness ==
    /\ result.op = "decryptSecret"
    /\ result.tenantId = "tA"
    /\ ~result.ok
    /\ IsReady
    /\ SecretPath("tA", result.arg) \in vaultDeleted
    /\ \E w \in vaultWritten : IsRecordOf(w, "tA", result.arg)

(***************************************************************************)
(* The provider's readiness gate: the outcome of every data operation of   *)
(* VaultSecretsProvider in the state at hand.                              *)
(***************************************************************************)
DataOperationOutcomes ==
    LET path == SecretPath("tA", "u1")
        key == "u2"
        data == [kind |-> "plain", value |-> <<"x">>,
                 metadata |-> Metadata("u1", "db-pass", path, <<"x">>)]
    IN  { [op |-> "getSecret", out |-> ProviderGetSecret(path)],
          [op |-> "setSecret", out |-> ProviderSetSecret(path, data)],
          [op |-> "deleteSecret", out |-> ProviderDeleteSecret(path)],
          [op |-> "listSecrets", out |-> [ok |-> ProviderListSecrets(path).ok, val |-> << >>,
                                          err |-> ProviderListSecrets(path).err]],
          [op |-> "encrypt", out |-> [ok |-> ProviderEncrypt(<<"x">>, key).ok, val |-> << >>,
                                      err |-> ProviderEncrypt(<<"x">>, key).err]],
          [op |-> "decrypt",
           out |-> ProviderDecrypt([ciphertext |-> <<Marker, "x">>, keyId |-> key])],
          [op |-> "createKey", out |-> [ok |-> ProviderCreateKey(key).ok, val |-> << >>,
                                        err |-> ProviderCreateKey(key).err]],
          [op |-> "listKeys", out |-> [ok |-> ProviderListKeys.ok, val |-> << >>,
                                       err |-> ProviderListKeys.err]],
          [op |-> "rotateKey", out |-> [ok |-> ProviderRotateKey(key).ok, val |-> << >>,
                                        err |-> ProviderRotateKey(key).err]],
          [op |-> "deleteKey", out |-> ProviderDeleteKey(key)] }

Gated ==
    ~IsReady => \A o \in DataOperationOutcomes :
                    /\ ~o.out.ok
                    /\ Len(o.out.err) = 2
                    /\ o.out.err[2] = "Vault provider not ready"

(***************************************************************************)
(* C38: isReady() is true exactly when initialize() has completed          *)
(* successfully, dispose() has not been called since, and the last         *)
(* healthCheck did not report unhealthy: an initialize that succeeds       *)
(* leaves the provider ready exactly if its health check reported healthy, *)
(* dispose and a healthCheck that reports unhealthy make it not ready, and *)
(* nothing else changes isReady.  Whenever isReady() is false every data   *)
(* operation of the provider fails with the not-ready error, and no call   *)
(* reaches the backend.                                                    *)
(***************************************************************************)
\* A step of initialize(), and the step at which it returns.
InitializeStep == ini' # ini
InitializeReturns == ini # "idle" /\ ini' = "idle"

C38_ReadinessGate ==
    [][ /\ Gated /\ Gated'
        /\ (InitializeReturns /\ result'.ok) => (IsReady' <=> InitializeHealthy)
        /\ (InitializeReturns /\ ~result'.ok) => ~IsReady'
        /\ result'.op = "dispose" => ~IsReady'
        /\ result'.op = "healthCheck" => (IsReady' <=> (isInitialized /\ result'.ret.healthy))
        /\ result'.op = "validateConfig" => (IsReady' <=> (isInitialized /\ result'.ret))
        /\ (~InitializeReturns /\ result'.op \notin {"dispose", "healthCheck", "validateConfig"})
           => (IsReady' <=> IsReady)
        /\ ~IsReady => UNCHANGED <<vaultWritten, vaultDeleted, createdKeys, deletedKeyIds>>
      ]_vars

\* The gate as the code has it: a successful initialize makes the provider
\* ready whatever its health check reported, and the provider is not ready
\* from the call of initialize() until it returns.
ReadinessGateAsCoded ==
    [][ /\ Gated /\ Gated'
        /\ (InitializeReturns /\ result'.ok) => IsReady'
        /\ (InitializeStep /\ ~(InitializeReturns /\ result'.ok)) => ~IsReady'
        /\ result'.op = "dispose" => ~IsReady'
        /\ result'.op = "healthCheck" => (IsReady' <=> (isInitialized /\ result'.ret.healthy))
        /\ result'.op = "validateConfig" => (IsReady' <=> (isInitialized /\ result'.ret))
        /\ (~InitializeStep /\ result'.op \notin {"dispose", "healthCheck", "validateConfig"})
           => (IsReady' <=> IsReady)
        /\ ~IsReady => UNCHANGED <<vaultWritten, vaultDeleted, createdKeys, deletedKeyIds>>
      ]_vars

(***************************************************************************)
(* C39: every SecretResponse that storeSecret, encryptAndStoreSecret and   *)
(* getSecret return for a tenant, and every entry that listSecrets returns *)
(* for it, carries metadata whose tenantId is that tenant and whose id is  *)
(* the id of the secret.                                                   *)
(***************************************************************************)
C39_MetadataNamesTenantAndSecret ==
    /\ (result.op \in {"storeSecret", "encryptAndStoreSecret", "getSecret"} /\ result.ok) =>
           /\ result.ret.metadata.tenantId = result.tenantId
           /\ result.ret.metadata.id = result.ret.id
    /\ (result.op = "listSecrets" /\ result.ok) =>
           \A i \in DOMAIN result.ret.secrets :
               result.ret.secrets[i].tenantId = result.tenantId

\* n calls of incr(key) on the map c.
RECURSIVE MemoryIncrTimes(_, _, _)
MemoryIncrTimes(c, key, n) ==
    IF n = 0 THEN c ELSE MemoryIncr(MemoryIncrTimes(c, key, n - 1), key).cache

(***************************************************************************)
(* C40: with any configuration of MemoryCacheService, a key prefix         *)
(* included, incr(k) reads and writes the entry that get, set, expire, ttl *)
(* and del address under k: after n calls of incr(k) on a fresh key,       *)
(* get(k) returns n, and expire(k, s) followed by ttl(k) reports the       *)
(* expiry of that counter.                                                 *)
(***************************************************************************)
C40_IncrAddressesTheKey ==
    \A ip \in IpInputs, n \in 1..MaxCalls, s \in WindowInputs :
        LET key == RateLimitKey(ip)
            counted == MemoryIncrTimes(cache, key, n)
        IN  (IsMemory /\ MemoryGet(cache, key).val = NoValue)
            => /\ MemoryGet(counted, key).val = NumberToString(n)
               /\ MemoryTtl(MemoryExpire(counted, key, s), key) = s

====
